---- MODULE Spec2Model ----
(***************************************************************************)
(* Model of the project/snapshot ingestion engine of PM_APP:               *)
(*   src/importer.py  map_row, upsert_project, fetch_prev_snapshot,        *)
(*                    compute_deltas, upsert_snapshot                      *)
(*   src/app.py       import_excel (POST /imports), historical_week_label, *)
(*                    move_project_to_historical,                          *)
(*                    restore_project_from_historical                      *)
(*                                                                         *)
(* The relational tables are functions from their unique key to a row:     *)
(*   projects            project_code            -> project row            *)
(*   project_snapshot    <<project, year, week>> -> snapshot row           *)
(*   projects_historical project_code            -> historical row         *)
(* projects.id is a serial in bijection with project_code (rows are never  *)
(* deleted), so a project id is represented by the code it was issued for. *)
(*                                                                         *)
(* A nullable value is NULL (Python None, SQL NULL) or Some(v).            *)
(* Strings are TLA+ strings; the str methods the code applies to them      *)
(* (strip, lower) are tables over the tokens the rows of the model carry.  *)
(* Hours are integers.                                                     *)
(***************************************************************************)
EXTENDS Integers, Sequences, FiniteSets, TLC

NULL == <<>>

Some(v) == <<v>>

Val(o) == o[1]

(***************************************************************************)
(* Bounds of the model.                                                    *)
(***************************************************************************)
\* rows read from one file (df.iterrows) before the batch commits
MaxRows == 2

\* rows of import_file, one per committed batch
MaxFiles == 2

\* the same for the specification with two clients
MaxFilesConc == 3

\* snapshots in a history read by the personal area
MaxHistory == 3

\* imports followed on the metric columns
MaxImports == 2

\* pieces of a header, and applications of the header normalisation
MaxHeaderLen == 3

MaxPasses == 2

\* rows of project_tasks
MaxTasks == 1

\* (snapshot_year, snapshot_week) form values: the last week of 2025 and the
\* first week of 2026, so that year order and week order disagree
YearWeeks == {<<2025, 52>>, <<2026, 1>>}

\* the same with one more week, for the specification with a single project
YearWeeksDelta == {<<2025, 52>>, <<2026, 1>>, <<2026, 2>>}

ImportTypes == {"OTS", "ALL"}

Filename == "all.xlsx"

(***************************************************************************)
(* str.strip() and str.lower() on the tokens used by the model.            *)
(***************************************************************************)
\* variant: no strip
strip_identity(s) == s

strip(s) ==
    CASE s = "P1 " -> "P1"
      [] s = " " -> ""
      [] s = "Normal " -> "Normal"
      [] s = " nan" -> "nan"
      [] s = " task" -> "task"
      [] s = "closed " -> "closed"
      [] s = " fix " -> "fix"
      [] OTHER -> s

lower(s) ==
    CASE s = "Closed" -> "closed"
      [] s = "Code" -> "code"
      [] s = "Desviacion" -> "desviacion"
      [] s = "H" -> "h"
      [] s = "Hided" -> "hided"
      [] s = "Normal" -> "normal"
      [] s = "NaN" -> "nan"
      [] s = "None" -> "none"
      [] OTHER -> s

upper(s) ==
    CASE s = "task" -> "TASK"
      [] s = "pp" -> "PP"
      [] s = "bug" -> "BUG"
      [] s = "pm" -> "PM"
      [] s = "boss" -> "BOSS"
      [] s = "open" -> "OPEN"
      [] s = "closed" -> "CLOSED"
      [] s = "done" -> "DONE"
      [] OTHER -> s

\* Python `v or ""` on an optional string
OrEmpty(o) == IF o = NULL \/ o = Some("") THEN "" ELSE Val(o)

(***************************************************************************)
(* importer.py: _delta                                                     *)
(***************************************************************************)
_delta(curr, prev) ==
    IF curr = NULL \/ prev = NULL THEN NULL ELSE Some(Val(curr) - Val(prev))

(***************************************************************************)
(* SQL COALESCE(EXCLUDED.x, table.x)                                       *)
(***************************************************************************)
\* variant: EXCLUDED.x without the COALESCE
COALESCE_overwrite(new, old) == new

COALESCE(new, old) == IF new # NULL THEN new ELSE old

(***************************************************************************)
(* importer.py: normalize_excel_date.  A date cell is a spreadsheet serial *)
(* number (days from 1899-12-30); a date is represented by its serial      *)
(* number.  Missing and 0 cells give None.                                 *)
(***************************************************************************)
normalize_excel_date(v) == IF v = NULL \/ Val(v) = 0 THEN NULL ELSE v

(***************************************************************************)
(* importer.py: map_row.  A normalized row carries project_code,           *)
(* project_name, client, internal_status, real_hours and date_end; the     *)
(* empty pair ({}, {}) reads as NULL under dict.get for every key.         *)
(***************************************************************************)
EmptyProject == [project_code |-> NULL, project_name |-> NULL, client |-> NULL]

EmptySnap ==
    [internal_status |-> NULL, real_hours |-> NULL, date_end |-> NULL,
     real_hours_delta |-> NULL]

\* the columns of project_snapshot the model stores
SnapshotColumns == {"real_hours", "date_end", "real_hours_delta"}

map_row(row) ==
    IF row.project_code = NULL
    THEN [project |-> EmptyProject, snap |-> EmptySnap]
    ELSE [project |-> [project_code |-> row.project_code,
                       project_name |-> row.project_name,
                       client |-> row.client],
          snap |-> [internal_status |-> row.internal_status,
                    real_hours |-> row.real_hours,
                    date_end |-> normalize_excel_date(row.date_end),
                    real_hours_delta |-> NULL]]

(***************************************************************************)
(* importer.py: upsert_project.  INSERT ... ON CONFLICT (project_code) DO  *)
(* UPDATE with COALESCE(EXCLUDED.x, projects.x) on the imported columns;   *)
(* is_historical is not among them (DEFAULT FALSE on insert).              *)
(***************************************************************************)
upsert_project(P, project) ==
    LET code == Val(project.project_code) IN
    IF code \in DOMAIN P
    THEN [P EXCEPT ![code] =
            [@ EXCEPT !.project_name = COALESCE(project.project_name, @),
                      !.client = COALESCE(project.client, @)]]
    ELSE [c \in DOMAIN P \cup {code} |->
            IF c = code
            THEN [project_name |-> project.project_name,
                  client |-> project.client,
                  is_historical |-> FALSE]
            ELSE P[c]]

(***************************************************************************)
(* importer.py: fetch_prev_snapshot.  Row comparison                       *)
(* (snapshot_year, snapshot_week) < (y, w) is lexicographic.               *)
(***************************************************************************)
\* variant: (snapshot_year, snapshot_week) <= (y, w)
YearWeekLess_orEqual(y1, w1, y2, w2) == y1 < y2 \/ (y1 = y2 /\ w1 <= w2)

\* variant: the week compared alone
YearWeekLess_weekOnly(y1, w1, y2, w2) == w1 < w2

YearWeekLess(y1, w1, y2, w2) == y1 < y2 \/ (y1 = y2 /\ w1 < w2)

PrevKeys(S, pid, y, w) ==
    {k \in DOMAIN S : k[1] = pid /\ YearWeekLess(k[2], k[3], y, w)}

\* ORDER BY snapshot_year DESC, snapshot_week DESC LIMIT 1
LatestKey(keys) ==
    CHOOSE k \in keys :
        \A j \in keys : j = k \/ YearWeekLess(j[2], j[3], k[2], k[3])

fetch_prev_snapshot(S, pid, y, w) ==
    LET keys == PrevKeys(S, pid, y, w) IN
    IF keys = {} THEN NULL ELSE Some(S[LatestKey(keys)])

(***************************************************************************)
(* importer.py: compute_deltas                                             *)
(***************************************************************************)
compute_deltas(S, pid, y, w, snap_fields) ==
    LET prev == fetch_prev_snapshot(S, pid, y, w) IN
    IF prev = NULL
    THEN snap_fields
    ELSE [snap_fields EXCEPT
            !.real_hours_delta = _delta(snap_fields.real_hours, Val(prev).real_hours)]

(***************************************************************************)
(* importer.py: upsert_snapshot.  ON CONFLICT (project_id, snapshot_year,  *)
(* snapshot_week) DO UPDATE: COALESCE on every column but the milestone    *)
(* dates, which take EXCLUDED.x.                                           *)
(***************************************************************************)
\* variant: the milestone dates merged like the other columns
MergeSnapshot_keepDates(old, new) ==
    [real_hours |-> COALESCE(new.real_hours, old.real_hours),
     date_end |-> COALESCE(new.date_end, old.date_end),
     real_hours_delta |-> COALESCE(new.real_hours_delta, old.real_hours_delta)]

\* variant: the stored value wins over the new one
MergeSnapshot_firstWins(old, new) ==
    [real_hours |-> COALESCE(old.real_hours, new.real_hours),
     date_end |-> new.date_end,
     real_hours_delta |-> COALESCE(new.real_hours_delta, old.real_hours_delta)]

MergeSnapshot(old, new) ==
    [real_hours |-> COALESCE(new.real_hours, old.real_hours),
     date_end |-> new.date_end,
     real_hours_delta |-> COALESCE(new.real_hours_delta, old.real_hours_delta)]

\* variant: ON CONFLICT DO NOTHING
upsert_snapshot_doNothing(S, pid, y, w, fields) ==
    LET key == <<pid, y, w>>
        payload == [c \in SnapshotColumns |-> fields[c]]
    IN  IF key \in DOMAIN S
        THEN S
        ELSE [k \in DOMAIN S \cup {key} |-> IF k = key THEN payload ELSE S[k]]

upsert_snapshot(S, pid, y, w, fields) ==
    LET key == <<pid, y, w>>
        \* the "" -> None guard on the dates never fires on this path:
        \* map_row hands over a date or None
        payload == [c \in SnapshotColumns |-> fields[c]]
    IN  IF key \in DOMAIN S
        THEN [S EXCEPT ![key] = MergeSnapshot(@, payload)]
        ELSE [k \in DOMAIN S \cup {key} |-> IF k = key THEN payload ELSE S[k]]

(***************************************************************************)
(* app.py: historical_week_label  f"{year}-W{week:02d}"                    *)
(***************************************************************************)
\* variant: f"{year}-W{week}"
historical_week_label_nopad(y, w) == ToString(y) \o "-W" \o ToString(w)

historical_week_label(y, w) ==
    ToString(y) \o "-W" \o (IF w < 10 THEN "0" ELSE "") \o ToString(w)

(***************************************************************************)
(* app.py: move_project_to_historical.  UPDATE projects SET is_historical  *)
(* WHERE id = pid; read the latest snapshot; INSERT INTO                   *)
(* projects_historical ... ON CONFLICT (project_code) DO UPDATE.           *)
(***************************************************************************)
AllKeys(S, pid) == {k \in DOMAIN S : k[1] = pid}

move_flag(P, pid) == [P EXCEPT ![pid].is_historical = TRUE]

HistoricalRow(S, pid, project_fields, label, filename) ==
    LET keys == AllKeys(S, pid)
        latest_real_hours ==
            IF keys = {} THEN NULL ELSE S[LatestKey(keys)].real_hours
    IN  [project_name |-> project_fields.project_name,
         moved_to_historical_week |-> label,
         progress_w |-> 100,
         real_hours |-> latest_real_hours,
         last_import_filename |-> filename]

move_record(H, S, pid, project_fields, label, filename) ==
    LET code == Val(project_fields.project_code)
        rec == HistoricalRow(S, pid, project_fields, label, filename)
    IN  [c \in DOMAIN H \cup {code} |-> IF c = code THEN rec ELSE H[c]]

(***************************************************************************)
(* app.py: restore_project_from_historical.  UPDATE projects SET           *)
(* is_historical = FALSE WHERE project_code = code; DELETE FROM            *)
(* projects_historical WHERE project_code = code.                          *)
(***************************************************************************)
restore_flag(P, code) ==
    [c \in DOMAIN P |->
        IF c = code THEN [P[c] EXCEPT !.is_historical = FALSE] ELSE P[c]]

\* variant: the DELETE left out
restore_record_keep(H, code) == H

restore_record(H, code) == [c \in DOMAIN H \ {code} |-> H[c]]

(***************************************************************************)
(* app.py: ensure_historical_storage.  The DDL is idempotent; the closing  *)
(* UPDATE copies the metrics of the latest snapshot into every historical  *)
(* row that joins a project with a snapshot and has a NULL metric.  The    *)
(* metric columns (ordered_total, real_hours, desviacion_pct) are          *)
(* represented by real_hours.                                              *)
(***************************************************************************)
ensure_historical_storage(H, P, S) ==
    [c \in DOMAIN H |->
        IF c \in DOMAIN P /\ AllKeys(S, c) # {} /\ H[c].real_hours = NULL
        THEN [H[c] EXCEPT !.real_hours = S[LatestKey(AllKeys(S, c))].real_hours]
        ELSE H[c]]

(***************************************************************************)
(* State.  The three tables as the batch transaction sees them, and the    *)
(* locals of import_excel: the form values, the four counters, the number  *)
(* of rows read from the file so far and the row of the current iteration  *)
(* (NULL outside the loop).                                                *)
(*                                                                         *)
(* The database side of the connection, tracked by the specifications that *)
(* follow the transaction (SpecTx, SpecSame, SpecDisjoint):                *)
(*   committed    the tables as every other connection reads them          *)
(*   import_file  the number of import_file rows the transaction sees      *)
(*   batch        the rows the running request has applied (kept when the  *)
(*                request fails)                                           *)
(*   pending      the form of a second request waiting for the running one *)
(*   previous     the batch committed last: the tables it started from,    *)
(*                its form and rows, and whether the next one was already  *)
(*                waiting when it committed                                *)
(***************************************************************************)
VARIABLES projects, project_snapshot, projects_historical,
          pc, import_type, snapshot_year, snapshot_week,
          imported, skipped, archived, restored, rows_read, row,
          committed, import_file, batch, pending, previous,
          weekly, phases_history,
          productivity_status, deviation_status, phase_status, overall_status,
          metric_snapshot, cells, snap_fields, metric_week, metric_imports,
          sheet_columns, columns, header_pass,
          project_tasks, task_request, task_response, task_previous

tables == <<projects, project_snapshot, projects_historical>>

form == <<import_type, snapshot_year, snapshot_week>>

counters == <<imported, skipped, archived, restored>>

database == <<committed, import_file, batch, pending, previous>>

\* menu_personal: the two histories read for a project and the four statuses
personal == <<weekly, phases_history, productivity_status, deviation_status,
              phase_status, overall_status>>

\* the metric columns of one project's snapshots, followed apart from the
\* lifecycle: the table, and the cells, computed fields and (year, week) of
\* the row imported last
metrics == <<metric_snapshot, cells, snap_fields, metric_week, metric_imports>>

\* read_and_normalize_excel: the headers of the sheet, df.columns, and the
\* number of times the normalisation has been applied to them
sheet == <<sheet_columns, columns, header_pass>>

\* the project_tasks table, the task request answered last with its response,
\* and the status code the request before it was answered with
tasks == <<project_tasks, task_request, task_response, task_previous>>

vars == <<projects, project_snapshot, projects_historical,
          pc, import_type, snapshot_year, snapshot_week,
          imported, skipped, archived, restored, rows_read, row,
          committed, import_file, batch, pending, previous,
          weekly, phases_history,
          productivity_status, deviation_status, phase_status, overall_status,
          metric_snapshot, cells, snap_fields, metric_week, metric_imports,
          sheet_columns, columns, header_pass,
          project_tasks, task_request, task_response, task_previous>>

InitImport ==
    /\ projects = <<>>
    /\ project_snapshot = <<>>
    /\ projects_historical = <<>>
    /\ pc = "idle"
    /\ import_type = "OTS"
    /\ snapshot_year = 2025
    /\ snapshot_week = 52
    /\ imported = 0
    /\ skipped = 0
    /\ archived = 0
    /\ restored = 0
    /\ rows_read = 0
    /\ row = NULL
    /\ committed = [projects |-> <<>>, project_snapshot |-> <<>>,
                    projects_historical |-> <<>>, import_file |-> 0]
    /\ import_file = 0
    /\ batch = <<>>
    /\ pending = NULL
    /\ previous = NULL

\* no request for the personal area yet
InitPersonal ==
    /\ weekly = <<>>
    /\ phases_history = <<>>
    /\ productivity_status = ""
    /\ deviation_status = ""
    /\ phase_status = ""
    /\ overall_status = ""

\* no metric imported yet
InitMetrics ==
    /\ metric_snapshot = <<>>
    /\ cells = NULL
    /\ snap_fields = NULL
    /\ metric_week = NULL
    /\ metric_imports = 0

\* and no task yet, no task request answered, no sheet read
Init ==
    /\ InitImport /\ InitPersonal /\ InitMetrics
    /\ project_tasks = <<>>
    /\ task_request = NULL
    /\ task_response = NULL
    /\ task_previous = NULL
    /\ sheet_columns = <<>>
    /\ columns = <<>>
    /\ header_pass = 0

(***************************************************************************)
(* app.py: import_excel, up to the row loop: the form is validated         *)
(* (import_type in {OTS, ALL}), the counters start at 0 and                *)
(* ensure_historical_storage runs on the new connection.                   *)
(***************************************************************************)
BeginImport(type, yw) ==
    /\ pc = "idle"
    /\ pc' = "rows"
    /\ import_type' = type
    /\ snapshot_year' = yw[1]
    /\ snapshot_week' = yw[2]
    /\ imported' = 0
    /\ skipped' = 0
    /\ archived' = 0
    /\ restored' = 0
    /\ rows_read' = 0
    /\ row' = NULL
    /\ projects_historical' =
          ensure_historical_storage(projects_historical, projects, project_snapshot)
    /\ UNCHANGED <<projects, project_snapshot>>

(***************************************************************************)
(* app.py: startup_init and historicals (GET /historicals): both run       *)
(* ensure_historical_storage and commit; the page itself only reads.       *)
(***************************************************************************)
historicals ==
    /\ pc = "idle"
    /\ projects_historical' =
          ensure_historical_storage(projects_historical, projects, project_snapshot)
    /\ UNCHANGED <<projects, project_snapshot, pc, form, counters, rows_read, row>>

(***************************************************************************)
(* app.py: import_excel, one iteration of `for _, row in df.iterrows()`.   *)
(***************************************************************************)
\* code = (project_fields.get("project_code") or "").strip()
RowCode(r) == strip(OrEmpty(map_row(r).project.project_code))

\* project_fields after the placeholder-name substitution
ProjectFields(r) ==
    LET project == map_row(r).project
        name == project.project_name
    IN  IF name = NULL \/ lower(strip(Val(name))) \in {"", "nan", "none"}
        THEN [project EXCEPT !.project_name = Some("(SIN NOMBRE) " \o RowCode(r))]
        ELSE project

\* the project the row's writes go to: the id upsert_project returns
RowPid(r) == Val(map_row(r).project.project_code)

\* internal_status = str(snapshot_fields.get("internal_status") or "").strip().lower()
RowStatus(r) == lower(strip(OrEmpty(map_row(r).snap.internal_status)))

\* the branch of the loop body a row takes; historical_row is the result of
\* SELECT 1 FROM projects_historical WHERE project_code = code
\* variant: a normal row of a project that is not HISTORICAL is imported
RowBranch_importActive(type, code, internal_status, historical_row) ==
    IF code = "" THEN "no_code"
    ELSE IF type = "OTS" THEN "ots"
    ELSE IF internal_status \in {"closed", "hided"} THEN "archive"
    ELSE IF internal_status = "normal" /\ historical_row THEN "restore"
    ELSE IF internal_status = "normal" THEN "ots"
    ELSE "skip"

RowBranch(type, code, internal_status, historical_row) ==
    IF code = "" THEN "no_code"
    ELSE IF type = "OTS" THEN "ots"
    ELSE IF internal_status \in {"closed", "hided"} THEN "archive"
    ELSE IF internal_status = "normal" /\ historical_row THEN "restore"
    ELSE "skip"

\* the OTS body, and the tail of the restore branch: deltas, then the upsert
WriteSnapshot(S, pid, y, w, snapshot_fields) ==
    upsert_snapshot(S, pid, y, w, compute_deltas(S, pid, y, w, snapshot_fields))

\* the three tables as one value
Tables(P, S, H) ==
    [projects |-> P, project_snapshot |-> S, projects_historical |-> H]

\* the branch a row takes against the tables T
BranchOf(T, type, r) ==
    RowBranch(type, RowCode(r), RowStatus(r),
              RowCode(r) \in DOMAIN T.projects_historical)

\* the writes of one iteration on the tables T
ApplyRow(T, type, y, w, r) ==
    LET project_fields == ProjectFields(r)
        snapshot_fields == map_row(r).snap
        code == RowCode(r)
        pid == RowPid(r)
        label == historical_week_label(y, w)
        upserted == upsert_project(T.projects, project_fields)
        written == WriteSnapshot(T.project_snapshot, pid, y, w, snapshot_fields)
        branch == BranchOf(T, type, r)
    IN  CASE branch = "no_code" -> T
          [] branch = "ots" ->
                Tables(upserted, written, T.projects_historical)
          [] branch = "archive" ->
                Tables(move_flag(upserted, pid),
                       T.project_snapshot,
                       move_record(T.projects_historical, T.project_snapshot,
                                   pid, project_fields, label, Filename))
          [] branch = "restore" ->
                Tables(restore_flag(upserted, code),
                       written,
                       restore_record(T.projects_historical, code))
          [] branch = "skip" ->
                Tables(upserted, T.project_snapshot, T.projects_historical)

\* variant: a restored row is counted as restored only
Counted_restoredOnly(branch) ==
    [imported |-> IF branch = "ots" THEN 1 ELSE 0,
     skipped |-> IF branch \in {"no_code", "skip"} THEN 1 ELSE 0,
     archived |-> IF branch = "archive" THEN 1 ELSE 0,
     restored |-> IF branch = "restore" THEN 1 ELSE 0]

\* the `+= 1` statements of the branch an iteration takes
Counted(branch) ==
    [imported |-> IF branch \in {"ots", "restore"} THEN 1 ELSE 0,
     skipped |-> IF branch \in {"no_code", "skip"} THEN 1 ELSE 0,
     archived |-> IF branch = "archive" THEN 1 ELSE 0,
     restored |-> IF branch = "restore" THEN 1 ELSE 0]

ProcessRow(r) ==
    LET T == Tables(projects, project_snapshot, projects_historical)
        branch == BranchOf(T, import_type, r)
        after == ApplyRow(T, import_type, snapshot_year, snapshot_week, r)
    IN
    /\ pc = "rows"
    /\ rows_read < MaxRows
    /\ rows_read' = rows_read + 1
    /\ row' = Some(r)
    /\ UNCHANGED <<pc, form>>
    /\ projects' = after.projects
    /\ project_snapshot' = after.project_snapshot
    /\ projects_historical' = after.projects_historical
    /\ imported' = imported + Counted(branch).imported
    /\ skipped' = skipped + Counted(branch).skipped
    /\ archived' = archived + Counted(branch).archived
    /\ restored' = restored + Counted(branch).restored

(***************************************************************************)
(* app.py: import_excel, after the loop: conn.commit() and the response    *)
(* carrying the four counters; the locals go out of scope.                 *)
(***************************************************************************)
Commit ==
    /\ pc = "rows"
    /\ pc' = "idle"
    /\ import_type' = "OTS"
    /\ snapshot_year' = 2025
    /\ snapshot_week' = 52
    /\ imported' = 0
    /\ skipped' = 0
    /\ archived' = 0
    /\ restored' = 0
    /\ rows_read' = 0
    /\ row' = NULL
    /\ UNCHANGED tables

(***************************************************************************)
(* One client whose batches all commit: Spec, SpecDelta and SpecMerge.     *)
(* The tables are the ones the client's transactions see, which between    *)
(* batches are the committed ones; the database side is not tracked.       *)
(***************************************************************************)

(***************************************************************************)
(* Spec: the lifecycle specification.  Rows carry both spellings of a      *)
(* project code, a missing and a blank code and every family of status     *)
(* token.                                                                  *)
(***************************************************************************)
Codes == {Some("P1"), Some("P1 ")}

NoCodes == {NULL, Some(" ")}

StatusTokens ==
    {NULL, Some("Closed"), Some("hided"), Some("Normal "), Some("open")}

\* the cells of a row without a project code are never read
Rows ==
    [project_code : Codes, project_name : {Some("A")}, client : {NULL},
     internal_status : StatusTokens, real_hours : {Some(1)},
     date_end : {NULL}]
    \cup
    [project_code : NoCodes, project_name : {Some("A")}, client : {NULL},
     internal_status : {NULL}, real_hours : {Some(1)}, date_end : {NULL}]

Next ==
    /\ \/ \E type \in ImportTypes, yw \in YearWeeks : BeginImport(type, yw)
       \/ \E r \in Rows : ProcessRow(r)
       \/ Commit
       \/ historicals
    /\ UNCHANGED <<database, personal, metrics, sheet, tasks>>

Spec == Init /\ [][Next]_vars

(***************************************************************************)
(* SpecDelta: one project, three weeks, hours that differ from week to     *)
(* week or are missing.                                                    *)
(***************************************************************************)
HoursCells == {NULL, Some(1), Some(2)}

RowsDelta ==
    [project_code : {Some("P1")}, project_name : {Some("A")}, client : {NULL},
     internal_status : {Some("Closed"), Some("Normal ")},
     real_hours : HoursCells, date_end : {NULL}]

NextDelta ==
    /\ \/ \E type \in ImportTypes, yw \in YearWeeksDelta : BeginImport(type, yw)
       \/ \E r \in RowsDelta : ProcessRow(r)
       \/ Commit
       \/ historicals
    /\ UNCHANGED <<database, personal, metrics, sheet, tasks>>

SpecDelta == Init /\ [][NextDelta]_vars

(***************************************************************************)
(* SpecMerge: one project and one week, re-imported with every mix of      *)
(* present and missing cells.                                              *)
(***************************************************************************)
RowsMerge ==
    [project_code : {Some("P1")}, project_name : {NULL, Some("A")},
     client : {NULL, Some("X"), Some("Y")},
     internal_status : {Some("open")},
     real_hours : HoursCells,
     date_end : {NULL, Some(0), Some(46000)}]

NextMerge ==
    /\ \/ \E type \in ImportTypes : BeginImport(type, <<2026, 1>>)
       \/ \E r \in RowsMerge : ProcessRow(r)
       \/ Commit
       \/ historicals
    /\ UNCHANGED <<database, personal, metrics, sheet, tasks>>

SpecMerge == Init /\ [][NextMerge]_vars

(***************************************************************************)
(* The transaction of import_excel.  `with psycopg.connect(DB_DSN) as      *)
(* conn` opens a connection with autocommit off: ensure_historical_storage,*)
(* the INSERT INTO import_file and every row are statements of one         *)
(* transaction, conn.commit() after the loop is the only commit, and an    *)
(* exception leaves the `with` block through a rollback.                   *)
(***************************************************************************)
\* the tables and the import_file count as the open transaction sees them
View ==
    [projects |-> projects, project_snapshot |-> project_snapshot,
     projects_historical |-> projects_historical, import_file |-> import_file]

\* what the other connections read after a statement of the open
\* transaction: c is the committed store, v the view of the transaction
\* variant: autocommit on
visible_autocommit(c, v) == v

visible(c, v) == c

\* the request up to the loop; limit caps the import_file rows
TxBegin(type, yw, limit) ==
    /\ import_file < limit
    /\ BeginImport(type, yw)
    /\ import_file' = import_file + 1
    /\ batch' = <<>>
    /\ committed' = visible(committed, View')

TxRow(r) ==
    /\ ProcessRow(r)
    /\ import_file' = import_file
    /\ batch' = Append(batch, r)
    /\ committed' = visible(committed, View')

\* conn.commit() and the response
TxCommit ==
    /\ Commit
    /\ import_file' = import_file
    /\ batch' = <<>>
    /\ committed' = View

\* a statement raises (a persistence error): the exception leaves the
\* `with` block, the transaction is rolled back, the request fails
TxAbort ==
    /\ pc = "rows"
    /\ pc' = "idle"
    /\ projects' = committed.projects
    /\ project_snapshot' = committed.project_snapshot
    /\ projects_historical' = committed.projects_historical
    /\ import_file' = committed.import_file
    /\ import_type' = "OTS"
    /\ snapshot_year' = 2025
    /\ snapshot_week' = 52
    /\ imported' = 0
    /\ skipped' = 0
    /\ archived' = 0
    /\ restored' = 0
    /\ rows_read' = 0
    /\ row' = NULL
    /\ UNCHANGED <<committed, batch>>

\* GET /historicals on its own connection, committed when the block ends
TxHistoricals ==
    /\ historicals
    /\ committed' = [committed EXCEPT !.projects_historical = projects_historical']
    /\ UNCHANGED <<import_file, batch>>

(***************************************************************************)
(* SpecTx: one client whose requests commit or fail; one project, every    *)
(* kind of write (project, snapshot, archival, restoration).               *)
(***************************************************************************)
RowsTx ==
    [project_code : {Some("P1")}, project_name : {Some("A")}, client : {NULL},
     internal_status : {NULL, Some("Closed"), Some("Normal ")},
     real_hours : {Some(1)}, date_end : {NULL}]

NextTx ==
    /\ \/ \E type \in ImportTypes, yw \in YearWeeks : TxBegin(type, yw, MaxFiles)
       \/ \E r \in RowsTx : TxRow(r)
       \/ TxCommit
       \/ TxAbort
       \/ TxHistoricals
    /\ UNCHANGED <<pending, previous, personal, metrics, sheet, tasks>>

SpecTx == Init /\ [][NextTx]_vars

(***************************************************************************)
(* Two clients.  A second request may arrive while a batch runs.  Its      *)
(* transaction starts with the ALTER TABLE statements of                   *)
(* ensure_historical_storage on projects and projects_historical, which    *)
(* wait for the table lock until the running transaction has ended: the    *)
(* waiting request runs its statements after the running batch commits.    *)
(***************************************************************************)
Arrive(type, yw) ==
    /\ pc = "rows"
    /\ pending = NULL
    /\ pending' = Some([import_type |-> type, yw |-> yw])
    /\ UNCHANGED <<tables, pc, form, counters, rows_read, row,
                   committed, import_file, batch, previous>>

ConcBegin(type, yw) ==
    /\ pending = NULL
    /\ TxBegin(type, yw, MaxFilesConc)
    /\ UNCHANGED <<pending, previous>>

ConcBeginPending ==
    /\ pending # NULL
    /\ TxBegin(Val(pending).import_type, Val(pending).yw, MaxFilesConc)
    /\ pending' = NULL
    /\ UNCHANGED previous

ConcRow(r) ==
    /\ TxRow(r)
    /\ UNCHANGED <<pending, previous>>

ConcCommit ==
    /\ TxCommit
    /\ previous' =
          Some([base |-> Tables(committed.projects, committed.project_snapshot,
                                committed.projects_historical),
                import_type |-> import_type,
                yw |-> <<snapshot_year, snapshot_week>>,
                rows |-> batch,
                overlapped |-> pending # NULL])
    /\ UNCHANGED pending

(***************************************************************************)
(* SpecSame: two clients, subset imports of one project over two weeks.    *)
(***************************************************************************)
RowsSame ==
    [project_code : {Some("P1")}, project_name : {Some("A")}, client : {NULL},
     internal_status : {NULL}, real_hours : {Some(1), Some(2)},
     date_end : {NULL}]

NextSame ==
    /\ \/ \E yw \in YearWeeks : ConcBegin("OTS", yw)
       \/ \E yw \in YearWeeks : Arrive("OTS", yw)
       \/ ConcBeginPending
       \/ \E r \in RowsSame : ConcRow(r)
       \/ ConcCommit
    /\ UNCHANGED <<personal, metrics, sheet, tasks>>

SpecSame == Init /\ [][NextSame]_vars

(***************************************************************************)
(* SpecDisjoint: two clients, two projects, one week, both import modes.   *)
(***************************************************************************)
RowsDisjoint ==
    [project_code : {Some("P1"), Some("P2")}, project_name : {Some("A")},
     client : {NULL},
     internal_status : {Some("Normal "), Some("Closed")},
     real_hours : {Some(1)}, date_end : {NULL}]

NextDisjoint ==
    /\ \/ \E type \in ImportTypes : ConcBegin(type, <<2026, 1>>)
       \/ \E type \in ImportTypes : Arrive(type, <<2026, 1>>)
       \/ ConcBeginPending
       \/ \E r \in RowsDisjoint : ConcRow(r)
       \/ ConcCommit
    /\ UNCHANGED <<personal, metrics, sheet, tasks>>

SpecDisjoint == Init /\ [][NextDisjoint]_vars

(***************************************************************************)
(* A whole batch as a function of the tables it starts from: the           *)
(* statements of import_excel from ensure_historical_storage through the   *)
(* last row.                                                               *)
(***************************************************************************)
RECURSIVE RunRows(_, _, _, _, _)
RunRows(T, type, y, w, rows) ==
    IF rows = <<>> THEN T
    ELSE RunRows(ApplyRow(T, type, y, w, Head(rows)), type, y, w, Tail(rows))

import_batch(T, type, yw, rows) ==
    RunRows([T EXCEPT !.projects_historical =
                 ensure_historical_storage(T.projects_historical, T.projects,
                                           T.project_snapshot)],
            type, yw[1], yw[2], rows)

(***************************************************************************)
(* app.py: the read endpoints of the active views.  Each first selects the *)
(* project WHERE project_code = code AND COALESCE(is_historical, FALSE) =  *)
(* FALSE and answers 404 "Project not found" when no row comes back.       *)
(***************************************************************************)
HTTPException(status_code, detail) ==
    [status_code |-> status_code, detail |-> detail, body |-> <<>>]

Response(body) == [status_code |-> 200, detail |-> "", body |-> body]

\* variant: the is_historical condition left out of the WHERE clause
active_project_anyState(P, code) == code \in DOMAIN P

active_project(P, code) == code \in DOMAIN P /\ ~P[code].is_historical

\* GET /projects/{project_code}/state
project_state(P, S, code) ==
    IF ~active_project(P, code) THEN HTTPException(404, "Project not found")
    ELSE IF AllKeys(S, code) = {}
    THEN HTTPException(404, "No snapshots for project")
    ELSE Response([project |-> [project_code |-> code,
                                project_name |-> P[code].project_name,
                                client |-> P[code].client],
                   latest |-> S[LatestKey(AllKeys(S, code))]])

\* GET /projects/{project_code}/details
project_details(P, S, code) ==
    IF ~active_project(P, code) THEN HTTPException(404, "Project not found")
    ELSE IF AllKeys(S, code) = {}
    THEN HTTPException(404, "No snapshots for project")
    ELSE Response([project |-> [project_code |-> code,
                                project_name |-> P[code].project_name,
                                client |-> P[code].client],
                   latest |-> S[LatestKey(AllKeys(S, code))]])

\* GET /projects/{project_code}/task-counters; project_tasks is not stored
project_task_counters(P, code) ==
    IF ~active_project(P, code) THEN HTTPException(404, "Project not found")
    ELSE Response([project_id |-> code, task_open_count |-> 0,
                   pp_open_count |-> 0])

\* GET /projects/{project_code}/metrics/weekly; the list is ordered by
\* (year, week), which the keys of its entries carry
project_weekly_metrics(P, S, code) ==
    IF ~active_project(P, code) THEN HTTPException(404, "Project not found")
    ELSE Response({[year |-> k[2], week |-> k[3],
                    real_hours |-> S[k].real_hours,
                    real_hours_delta |-> S[k].real_hours_delta] :
                      k \in AllKeys(S, code)})

\* GET /projects/{project_code}/metrics/phases
project_phase_history(P, S, code) ==
    IF ~active_project(P, code) THEN HTTPException(404, "Project not found")
    ELSE Response({[year |-> k[2], week |-> k[3],
                    date_end |-> S[k].date_end] : k \in AllKeys(S, code)})

\* text ILIKE '%q%' for the texts and queries of the model
ILIKE(text, q) ==
    CASE q = "p1" -> text \in {"P1", "P1 ", "(SIN NOMBRE) P1"}
      [] q = "a" -> text = "A"
      [] OTHER -> FALSE

Queries == {"p1", "a", "zz"}

\* GET /projects/search?q=...: the project codes of the rows returned
search_projects(P, q) ==
    {c \in DOMAIN P :
        /\ ~P[c].is_historical
        /\ \/ ILIKE(c, q)
           \/ P[c].project_name # NULL /\ ILIKE(Val(P[c].project_name), q)
           \/ ILIKE(OrEmpty(P[c].client), q)}

(***************************************************************************)
(* app.py: the indicators of the personal area.  A history is the list of  *)
(* a project's snapshots ordered by (snapshot_year, snapshot_week)         *)
(* ascending, as menu_personal selects it.  A metric is a nullable number, *)
(* a milestone date a nullable day number.  Where Python would raise       *)
(* (an ordering comparison with None) the function yields "TypeError".     *)
(***************************************************************************)
to_float(value) == IF value = NULL THEN NULL ELSE Some(Val(value))

\* weekly[-1]
latest_of(history) == history[Len(history)]

\* variant: the oldest snapshot instead of the one before the latest
previous_of_oldest(history) == history[1]

\* weekly[-2]
previous_of(history) == history[Len(history) - 1]

\* variant: only the metrics of the latest snapshot are checked
MissingMetric_latestOnly(latest_real, prev_real, latest_progress, prev_progress) ==
    latest_real = NULL \/ latest_progress = NULL

\* latest_real is None or prev_real is None or latest_progress is None or
\* prev_progress is None
MissingMetric(latest_real, prev_real, latest_progress, prev_progress) ==
    \/ latest_real = NULL
    \/ prev_real = NULL
    \/ latest_progress = NULL
    \/ prev_progress = NULL

\* variant: progress strictly lower
spending_without_progress_strict(latest_real, prev_real, latest_progress, prev_progress) ==
    /\ Val(latest_real) > Val(prev_real)
    /\ Val(latest_progress) < Val(prev_progress)

\* latest_real > prev_real and latest_progress <= prev_progress
spending_without_progress(latest_real, prev_real, latest_progress, prev_progress) ==
    /\ Val(latest_real) > Val(prev_real)
    /\ Val(latest_progress) <= Val(prev_progress)

compute_productivity_indicator(history) ==
    IF Len(history) < 2 THEN "orange"
    ELSE
    LET latest == latest_of(history)
        prev == previous_of(history)
        latest_real == to_float(latest.real_hours)
        prev_real == to_float(prev.real_hours)
        latest_progress == to_float(latest.progress_w)
        prev_progress == to_float(prev.progress_w)
        latest_theoretical == to_float(latest.horas_teoricas)
        prev_theoretical == to_float(prev.horas_teoricas)
    IN  IF MissingMetric(latest_real, prev_real, latest_progress, prev_progress)
        THEN "orange"
        ELSE IF \/ latest_real = NULL \/ prev_real = NULL
                \/ /\ Val(latest_real) > Val(prev_real)
                   /\ (latest_progress = NULL \/ prev_progress = NULL)
        THEN "TypeError"
        ELSE IF spending_without_progress(latest_real, prev_real,
                                          latest_progress, prev_progress)
        THEN "red"
        ELSE IF latest_theoretical # NULL
                /\ Val(latest_real) > Val(latest_theoretical)
        THEN "amber"
        ELSE IF prev_theoretical # NULL
                /\ Val(latest_real) < Val(prev_theoretical)
        THEN "green"
        ELSE "orange"

compute_deviation_indicator(history) ==
    IF Len(history) < 2 THEN "orange"
    ELSE
    LET latest_dev == to_float(latest_of(history).desviacion_pct)
        prev_dev == to_float(previous_of(history).desviacion_pct)
    IN  IF latest_dev = NULL \/ prev_dev = NULL THEN "orange"
        ELSE IF Val(latest_dev) > Val(prev_dev) THEN "red"
        ELSE IF Val(latest_dev) = Val(prev_dev) THEN "amber"
        ELSE "green"

\* PHASES_INFO: of the six milestone columns, which the loops treat alike,
\* the model carries the first and the last
PHASES_INFO == <<"date_kickoff", "date_end">>

\* variant: only the latest pair of snapshots
pairs_latestOnly(history) == {i \in 2..Len(history) : i = Len(history)}

\* for i in range(1, len(phases_history)), as 1-based indexes of curr
pairs(history) == 2..Len(history)

\* changes[key] after the scan
changes(history, key) ==
    LET moved == {i \in pairs(history) : history[i - 1][key] # history[i][key]}
        known == {i \in moved : history[i - 1][key] # NULL /\ history[i][key] # NULL}
    IN  [later |-> \E i \in known : Val(history[i][key]) > Val(history[i - 1][key]),
         earlier |-> \E i \in known : Val(history[i][key]) < Val(history[i - 1][key]),
         changed |-> moved # {}]

compute_phase_indicator(history) ==
    LET keys == {PHASES_INFO[i] : i \in DOMAIN PHASES_INFO} IN
    IF \E key \in keys : changes(history, key).later THEN "red"
    ELSE IF \E key \in keys : changes(history, key).earlier THEN "green"
    ELSE IF \E key \in keys : changes(history, key).changed THEN "orange"
    ELSE "orange"

\* variant: amber shown as green
_indicator_to_color_amberGreen(status) ==
    IF status = "red" THEN "red"
    ELSE IF status = "orange" THEN "orange"
    ELSE "green"

_indicator_to_color(status) ==
    IF status = "red" THEN "red"
    ELSE IF status \in {"orange", "amber"} THEN "orange"
    ELSE "green"

\* menu_personal: overall_status of the three statuses
overall(productivity, deviation, phase) ==
    LET indicator_statuses == {_indicator_to_color(productivity),
                               _indicator_to_color(deviation),
                               _indicator_to_color(phase)}
    IN  IF "red" \in indicator_statuses THEN "red"
        ELSE IF "orange" \in indicator_statuses THEN "orange"
        ELSE "green"

(***************************************************************************)
(* app.py: menu_personal, the body of its loop for one project: the        *)
(* indicators of the two histories and the overall status.  A TypeError in *)
(* one of the functions fails the request.                                 *)
(***************************************************************************)
menu_personal ==
    /\ overall_status = ""
    /\ productivity_status' = compute_productivity_indicator(weekly)
    /\ deviation_status' = compute_deviation_indicator(weekly)
    /\ phase_status' = compute_phase_indicator(phases_history)
    /\ overall_status' =
          IF "TypeError" \in {productivity_status', deviation_status', phase_status'}
          THEN "TypeError"
          ELSE overall(productivity_status', deviation_status', phase_status')
    /\ UNCHANGED <<tables, pc, form, counters, rows_read, row, database,
                   weekly, phases_history, metrics, sheet, tasks>>

(***************************************************************************)
(* SpecPersonal: the personal area over histories of up to MaxHistory      *)
(* snapshots.  The last two snapshots of a weekly history take every       *)
(* combination of metrics, the older ones a few; every weekly history is   *)
(* tried without phase history, every pair of snapshots with a few phase   *)
(* histories and every phase history with a few weekly ones.               *)
(***************************************************************************)
Metrics == {NULL, Some(0), Some(1)}

WeeklyRows ==
    [progress_w : Metrics, desviacion_pct : Metrics, real_hours : Metrics,
     horas_teoricas : Metrics]

WeeklyRow(progress, deviation, real, theoretical) ==
    [progress_w |-> progress, desviacion_pct |-> deviation,
     real_hours |-> real, horas_teoricas |-> theoretical]

OlderWeeklyRows ==
    {WeeklyRow(NULL, NULL, NULL, NULL),
     WeeklyRow(Some(0), Some(0), Some(0), Some(0))}

\* the histories of two snapshots
WeeklyPairs == {<<a, b>> : a \in WeeklyRows, b \in WeeklyRows}

RECURSIVE OlderHistories(_)
OlderHistories(n) ==
    IF n = 0 THEN {<<>>}
    ELSE {<<o>> \o h : o \in OlderWeeklyRows, h \in OlderHistories(n - 1)}

WeeklyHistories ==
    {<<>>} \cup {<<r>> : r \in WeeklyRows}
    \cup UNION {{h \o <<a, b>> : h \in OlderHistories(n),
                                 a \in WeeklyRows, b \in WeeklyRows} :
                   n \in 0..(MaxHistory - 2)}

\* green, red and amber in both weekly indicators
SampleWeeklyHistories ==
    {<<WeeklyRow(Some(0), Some(1), Some(0), Some(1)),
       WeeklyRow(Some(1), Some(0), Some(0), Some(1))>>,
     <<WeeklyRow(Some(0), Some(0), Some(0), Some(0)),
       WeeklyRow(Some(0), Some(1), Some(1), Some(0))>>,
     <<WeeklyRow(Some(0), Some(0), Some(1), Some(0)),
       WeeklyRow(Some(0), Some(0), Some(1), Some(0))>>}

PhaseDates == {NULL, Some(1), Some(2)}

PhaseRows == [date_kickoff : PhaseDates, date_end : PhaseDates]

PhaseHistories == UNION {[1..n -> PhaseRows] : n \in 0..MaxHistory}

\* no history, a date moved later, a date moved earlier
SamplePhaseHistories ==
    {<<>>,
     <<[date_kickoff |-> Some(1), date_end |-> Some(1)],
       [date_kickoff |-> Some(1), date_end |-> Some(2)]>>,
     <<[date_kickoff |-> Some(1), date_end |-> Some(2)],
       [date_kickoff |-> Some(1), date_end |-> Some(1)]>>}

InitMenu ==
    /\ InitImport
    /\ \/ weekly \in WeeklyHistories /\ phases_history = <<>>
       \/ weekly \in WeeklyPairs /\ phases_history \in SamplePhaseHistories
       \/ weekly \in SampleWeeklyHistories /\ phases_history \in PhaseHistories
    /\ productivity_status = ""
    /\ deviation_status = ""
    /\ phase_status = ""
    /\ overall_status = ""
    /\ InitMetrics
    /\ project_tasks = <<>>
    /\ task_request = NULL
    /\ task_response = NULL
    /\ task_previous = NULL
    /\ sheet_columns = <<>>
    /\ columns = <<>>
    /\ header_pass = 0

NextPersonal == menu_personal

SpecPersonal == InitMenu /\ [][NextPersonal]_vars

(***************************************************************************)
(* importer.py: the metrics of a row and their deltas.  Python floats are  *)
(* represented by exact fractions <<numerator, denominator>> in lowest     *)
(* terms with a positive denominator; <<0, 0>> stands for the quotient of  *)
(* a division by zero, where Python raises ZeroDivisionError.              *)
(***************************************************************************)
Abs(x) == IF x < 0 THEN -x ELSE x

\* the fraction n / d in lowest terms
Frac(n, d) ==
    LET RECURSIVE gcd(_, _)
        gcd(a, b) == IF b = 0 THEN a ELSE gcd(b, a % b)
        sn == IF d < 0 THEN -n ELSE n
        sd == Abs(d)
        g == gcd(Abs(sn), sd)
    IN  <<sn \div g, sd \div g>>

Float(n) == <<n, 1>>

ZeroDivisionError == <<0, 0>>

FAdd(a, b) == Frac(a[1] * b[2] + b[1] * a[2], a[2] * b[2])

FSub(a, b) == Frac(a[1] * b[2] - b[1] * a[2], a[2] * b[2])

FMul(a, b) == Frac(a[1] * b[1], a[2] * b[2])

FDiv(a, b) == IF b[1] = 0 THEN ZeroDivisionError ELSE Frac(a[1] * b[2], a[2] * b[1])

\* importer.py: _to_float on a numeric or empty cell
_to_float(v) == IF v = NULL THEN NULL ELSE Some(Float(Val(v)))

\* variant: `if ordered_n or ordered_e`, which a 0 does not satisfy
has_ordered_truthy(ordered_n, ordered_e) ==
    \/ ordered_n # NULL /\ Val(ordered_n)[1] # 0
    \/ ordered_e # NULL /\ Val(ordered_e)[1] # 0

\* ordered_n is not None or ordered_e is not None
has_ordered(ordered_n, ordered_e) == ordered_n # NULL \/ ordered_e # NULL

\* variant: only None is excluded
divisible_notNone(x) == x # NULL

\* x not in (None, 0) and abs(x) > 1e-6
divisible(x) ==
    /\ x # NULL
    /\ Val(x)[1] # 0
    /\ Abs(Val(x)[1]) * 1000000 > Val(x)[2]

MetricColumns ==
    {"ordered_n", "ordered_e", "ordered_total", "progress_w", "real_hours",
     "horas_teoricas", "desviacion_h", "desviacion_pct",
     "progress_w_delta", "real_hours_delta", "ordered_total_delta",
     "horas_teoricas_delta", "desviacion_pct_delta", "productividad_proyecto"}

\* map_row, the metric fields of snap
map_row_metrics(r) ==
    LET ordered_n == _to_float(r.ordered_n)
        ordered_e == _to_float(r.ordered_e)
        ordered_total ==
            IF has_ordered(ordered_n, ordered_e)
            THEN Some(FAdd(IF ordered_n = NULL THEN Float(0) ELSE Val(ordered_n),
                           IF ordered_e = NULL THEN Float(0) ELSE Val(ordered_e)))
            ELSE NULL
        progress_w == _to_float(r.progress_w)
        real_hours == _to_float(r.real_hours)
        horas_teoricas ==
            IF ordered_total # NULL /\ progress_w # NULL
            THEN Some(FMul(Val(ordered_total), FDiv(Val(progress_w), Float(100))))
            ELSE NULL
        desviacion_h ==
            IF real_hours # NULL /\ horas_teoricas # NULL
            THEN Some(FSub(Val(real_hours), Val(horas_teoricas)))
            ELSE NULL
        desviacion_pct ==
            IF desviacion_h # NULL /\ divisible(horas_teoricas)
            THEN LET q == FDiv(Val(desviacion_h), Val(horas_teoricas))
                 IN  Some(IF q = ZeroDivisionError THEN q ELSE FMul(q, Float(100)))
            ELSE NULL
    IN  [ordered_n |-> ordered_n, ordered_e |-> ordered_e,
         ordered_total |-> ordered_total, progress_w |-> progress_w,
         real_hours |-> real_hours, horas_teoricas |-> horas_teoricas,
         desviacion_h |-> desviacion_h, desviacion_pct |-> desviacion_pct,
         progress_w_delta |-> NULL, real_hours_delta |-> NULL,
         ordered_total_delta |-> NULL, horas_teoricas_delta |-> NULL,
         desviacion_pct_delta |-> NULL, productividad_proyecto |-> NULL]

\* _delta on floats
_delta_float(curr, prev) ==
    IF curr = NULL \/ prev = NULL THEN NULL ELSE Some(FSub(Val(curr), Val(prev)))

\* variant: htd / rhd
ratio_inverted(rhd, htd) ==
    IF rhd = NULL \/ ~divisible(htd) THEN NULL
    ELSE Some(FDiv(Val(htd), Val(rhd)))

\* compute_deltas: productividad_proyecto of the two deltas
ratio(rhd, htd) ==
    IF rhd = NULL \/ ~divisible(htd) THEN NULL
    ELSE Some(FDiv(Val(rhd), Val(htd)))

\* variant: without a previous snapshot the deltas are taken against the
\* snapshot itself
prev_or_self(fields, prev) == Some(fields)

\* prev = fetch_prev_snapshot(...); `if not prev: return snap_fields`
prev_or_none(fields, prev) == prev

\* compute_deltas over the metric fields; prev is the row fetch_prev_snapshot
\* returned, or NULL
compute_deltas_metrics(fields, prev) ==
    LET p == prev_or_none(fields, prev) IN
    IF p = NULL THEN fields
    ELSE
    LET rhd == _delta_float(fields.real_hours, Val(p).real_hours)
        htd == _delta_float(fields.horas_teoricas, Val(p).horas_teoricas)
    IN  [fields EXCEPT
            !.progress_w_delta = _delta_float(fields.progress_w, Val(p).progress_w),
            !.real_hours_delta = rhd,
            !.ordered_total_delta =
                _delta_float(fields.ordered_total, Val(p).ordered_total),
            !.horas_teoricas_delta = htd,
            !.desviacion_pct_delta =
                _delta_float(fields.desviacion_pct, Val(p).desviacion_pct),
            !.productividad_proyecto = ratio(rhd, htd)]

\* upsert_snapshot over the metric columns: COALESCE(EXCLUDED.x, x) on each
upsert_metrics(S, key, fields) ==
    IF key \in DOMAIN S
    THEN [S EXCEPT ![key] =
            [c \in MetricColumns |-> COALESCE(fields[c], S[key][c])]]
    ELSE [k \in DOMAIN S \cup {key} |->
            IF k = key THEN [c \in MetricColumns |-> fields[c]] ELSE S[k]]

(***************************************************************************)
(* import_excel in subset mode, one row of project P1 per import, followed *)
(* on the metric columns: map_row, compute_deltas, upsert_snapshot.        *)
(***************************************************************************)
ImportMetrics(yw, r) ==
    /\ metric_imports < MaxImports
    /\ metric_imports' = metric_imports + 1
    /\ cells' = Some(r)
    /\ metric_week' = Some(yw)
    /\ LET prev == fetch_prev_snapshot(metric_snapshot, "P1", yw[1], yw[2])
           fields == compute_deltas_metrics(map_row_metrics(r), prev)
       IN  /\ snap_fields' = Some(fields)
           /\ metric_snapshot' =
                 upsert_metrics(metric_snapshot, <<"P1", yw[1], yw[2]>>, fields)
    /\ UNCHANGED <<tables, pc, form, counters, rows_read, row, database, personal,
                   sheet, tasks>>

(***************************************************************************)
(* SpecMetrics: rows whose cells are missing, zero or the hours of a small *)
(* order, imported into two weeks.                                         *)
(***************************************************************************)
\* every mix of present and missing cells, an order of 0 hours included
NextMetrics ==
    \E yw \in YearWeeks,
       r \in [ordered_n : {NULL, Some(0), Some(60)}, ordered_e : {NULL, Some(40)},
              progress_w : {NULL, Some(50)},
              real_hours : {NULL, Some(40), Some(50)}] :
        ImportMetrics(yw, r)

SpecMetrics == Init /\ [][NextMetrics]_vars

(***************************************************************************)
(* importer.py: the normalisation of the headers.  A header is a sequence  *)
(* of pieces, each a run of characters that the character-level steps of   *)
(* _snake treat alike: a blank, a hyphen, an underscore, a percent sign,   *)
(* a punctuation mark, or a word.  A name produced by a rename table is a  *)
(* single piece.                                                           *)
(***************************************************************************)
\* the string the pieces spell
RECURSIVE Str(_)
Str(h) == IF h = <<>> THEN "" ELSE Head(h) \o Str(Tail(h))

RECURSIVE LStrip(_, _)
LStrip(h, T) == IF h # <<>> /\ Head(h) \in T THEN LStrip(Tail(h), T) ELSE h

\* str.strip(chars)
Strip(h, T) ==
    LET RECURSIVE RStrip(_)
        RStrip(g) ==
            IF g # <<>> /\ g[Len(g)] \in T
            THEN RStrip(SubSeq(g, 1, Len(g) - 1)) ELSE g
    IN  RStrip(LStrip(h, T))

\* re.sub("[T]+", by, s)
RECURSIVE SubRuns(_, _, _)
SubRuns(h, T, by) ==
    IF h = <<>> THEN <<>>
    ELSE IF Head(h) \in T THEN <<by>> \o SubRuns(LStrip(h, T), T, by)
    ELSE <<Head(h)>> \o SubRuns(Tail(h), T, by)

\* NFKD, combining marks dropped
_strip_accents(h) ==
    [i \in DOMAIN h |-> IF h[i] = "Desviación" THEN "Desviacion" ELSE h[i]]

\* re.sub(r"[^\w\s-]", "", s): the percent sign and the punctuation go
remove_nonword(h) == SelectSeq(h, LAMBDA t : t \notin {"%", "!"})

\* variant: the underscores are collapsed and stripped before the
\* punctuation is removed
_snake_collapseFirst(h) ==
    LET stripped == Strip(h, {" "})
        lowered == [i \in DOMAIN stripped |-> lower(_strip_accents(stripped)[i])]
        replaced == [i \in DOMAIN lowered |->
                        IF lowered[i] = "%" THEN "pct" ELSE lowered[i]]
        joined == SubRuns(replaced, {" ", "-"}, "_")
    IN  remove_nonword(Strip(SubRuns(joined, {"_"}, "_"), {"_"}))

\* strip, _strip_accents, lower, "%" to "pct", then the three re.sub
_snake(h) ==
    LET stripped == Strip(h, {" "})
        lowered == [i \in DOMAIN stripped |-> lower(_strip_accents(stripped)[i])]
        replaced == [i \in DOMAIN lowered |->
                        IF lowered[i] = "%" THEN "pct" ELSE lowered[i]]
        joined == SubRuns(remove_nonword(replaced), {" ", "-"}, "_")
    IN  Strip(SubRuns(joined, {"_"}, "_"), {"_"})

RENAME_MAP ==
    << <<"progress_pctw", "progress_w">>, <<"progress_w", "progress_w">>,
       <<"progress_pctc", "progress_c">>, <<"progress_c", "progress_c">>,
       <<"progress_pctpm", "progress_pm">>, <<"progress_pm", "progress_pm">>,
       <<"progress_pcte", "progress_e">>, <<"progress_e", "progress_e">>,
       <<"desviacion_h", "excel_desviacion_h">>,
       <<"desviacion_pct", "excel_desviacion_pct">>,
       <<"horas_teoricas", "excel_horas_teoricas">> >>

ALIASES ==
    << <<"customer", "client">>, <<"code", "project_code">>,
       <<"projectmanager", "project_manager">>, <<"real", "real_hours">>,
       <<"deviation_pcttd", "deviation_td">>, <<"deviation_pctcd", "deviation_cd">>,
       <<"deviation_pctpmd", "deviation_pmd">>, <<"deviation_pcted", "deviation_ed">>,
       <<"kick_off_ok", "kickoff_ok">>, <<"go_live_ok", "golive_ok">>,
       <<"date", "report_date">>,
       <<"dates_k", "date_kickoff">>, <<"dates_d", "date_design">>,
       <<"dates_v", "date_validation">>, <<"dates_g", "date_golive">>,
       <<"dates_r", "date_reception">>, <<"dates_e", "date_end">> >>

auto_rename ==
    << <<"project_name_unnamed_0_level_1", "project_name">>,
       <<"customer_unnamed_1_level_1", "client">>,
       <<"code_unnamed_2_level_1", "project_code">>,
       <<"mp_unnamed_3_level_1", "mp">>,
       <<"team_unnamed_4_level_1", "team">>,
       <<"projectmanager_unnamed_8_level_1", "project_manager">>,
       <<"consultant_unnamed_9_level_1", "consultant">>,
       <<"order_phase_unnamed_22_level_1", "order_phase">>,
       <<"internal_status_unnamed_23_level_1", "internal_status">>,
       <<"project_type_unnamed_24_level_1", "project_type">>,
       <<"service_type_unnamed_25_level_1", "service_type">>,
       <<"offer_code_unnamed_26_level_1", "offer_code">>,
       <<"date_unnamed_27_level_1", "report_date">>,
       <<"dates_k_unnamed_28_level_1", "date_kickoff">>,
       <<"dates_d_unnamed_29_level_1", "date_design">>,
       <<"dates_v_unnamed_30_level_1", "date_validation">>,
       <<"dates_g_unnamed_31_level_1", "date_golive">>,
       <<"dates_r_unnamed_32_level_1", "date_reception">>,
       <<"dates_e_unnamed_33_level_1", "date_end">>,
       <<"kick_off_ok_unnamed_34_level_1", "kickoff_ok">>,
       <<"design_ok_unnamed_35_level_1", "design_ok">>,
       <<"validation_ok_unnamed_36_level_1", "validation_ok">>,
       <<"go_live_ok_unnamed_37_level_1", "golive_ok">>,
       <<"reception_ok_unnamed_38_level_1", "reception_ok">>,
       <<"end_ok_unnamed_39_level_1", "end_ok">>,
       <<"real_unnamed_54_level_1", "real_hours">>,
       <<"real_unnamed_49_level_1", "real_hours">> >>

\* the three closing renames of the Excel deviation columns
forced_rename ==
    << <<"desviacion_h", "excel_desviacion_h">>,
       <<"desviacion_pct", "excel_desviacion_pct">>,
       <<"horas_teoricas", "excel_horas_teoricas">> >>

InColumns(cols, name) == \E i \in DOMAIN cols : Str(cols[i]) = name

Sources(table) == {table[i][1] : i \in DOMAIN table}

\* df.rename(columns={c: table.get(c, c) for c in df.columns})
rename_map(cols, table) ==
    [i \in DOMAIN cols |->
        IF Str(cols[i]) \in Sources(table)
        THEN <<table[CHOOSE k \in DOMAIN table : table[k][1] = Str(cols[i])][2]>>
        ELSE cols[i]]

\* if src in df.columns and dst not in df.columns: df.rename(columns={src: dst})
rename_if_free(cols, src, dst) ==
    IF InColumns(cols, src) /\ ~InColumns(cols, dst)
    THEN [i \in DOMAIN cols |-> IF Str(cols[i]) = src THEN <<dst>> ELSE cols[i]]
    ELSE cols

\* for src, dst in table.items(): ...; the loop is followed from one entry
\* whose src is a column to the next, the entries between them do nothing
RECURSIVE rename_each(_, _)
rename_each(cols, table) ==
    LET hits == {i \in DOMAIN table : InColumns(cols, table[i][1])} IN
    IF hits = {} THEN cols
    ELSE LET i == CHOOSE j \in hits : \A k \in hits : j <= k
         IN  rename_each(rename_if_free(cols, table[i][1], table[i][2]),
                         SubSeq(table, i + 1, Len(table)))

\* read_and_normalize_excel, from the headers read to the columns returned
read_and_normalize_excel(cols) ==
    LET snaked == [i \in DOMAIN cols |-> _snake(cols[i])]
        renamed == rename_map(snaked, RENAME_MAP)
        aliased == rename_each(renamed, ALIASES)
        fixed == rename_each(aliased, auto_rename)
    IN  rename_each(fixed, forced_rename)

\* the headers of a sheet: every header of up to MaxHeaderLen pieces, alone
\* or next to a column that a table renames to or from
SheetHeaders ==
    UNION {[1..n -> {" ", "-", "_", "%", "!", "Code", "Desviación", "H"}] :
              n \in 0..MaxHeaderLen}

InitHeaders ==
    /\ InitImport /\ InitPersonal /\ InitMetrics
    /\ project_tasks = <<>>
    /\ task_request = NULL
    /\ task_response = NULL
    /\ task_previous = NULL
    /\ \E h \in SheetHeaders :
          \/ sheet_columns = <<h>>
          \/ \E c \in {<<"project_code">>, <<"excel_desviacion_h">>, <<"Code">>} :
                sheet_columns = <<h, c>>
    /\ columns = sheet_columns
    /\ header_pass = 0

\* the normalisation applied to df.columns (once more)
Normalize ==
    /\ header_pass < MaxPasses
    /\ header_pass' = header_pass + 1
    /\ columns' = read_and_normalize_excel(columns)
    /\ UNCHANGED <<sheet_columns, tables, pc, form, counters, rows_read, row,
                   database, personal, metrics, tasks>>

NextHeaders == Normalize

SpecHeaders == InitHeaders /\ [][NextHeaders]_vars

(***************************************************************************)
(* app.py: the task endpoints.  Each request is one transaction on the     *)
(* committed tables; the model takes them between two imports.  The        *)
(* planned_date of a task is left out.                                     *)
(***************************************************************************)
TASK_TYPES == {"TASK", "PP"}

TASK_OWNER_ROLES == {"PM", "CONSULTORIA", "TECH", "COMERCIAL", "CLIENTE"}

TASK_STATUSES == {"OPEN", "IN_PROGRESS", "PAUSED", "CLOSED"}

\* variant: the is_historical condition left out of the WHERE clause
task_project_anyState(P, project_id) == project_id \in DOMAIN P

\* SELECT id FROM projects WHERE id = %s AND COALESCE(is_historical, FALSE) = FALSE,
\* and the join of the two UPDATE ... FROM projects p
task_project(P, project_id) ==
    project_id \in DOMAIN P /\ ~P[project_id].is_historical

\* variant: the description is not checked
description_missing_never(description) == FALSE

\* `if not description`
description_missing(description) == description = ""

\* the four checks that open create_project_task and update_project_task
validation(task_type, owner_role, status, description) ==
    IF task_type \notin TASK_TYPES
    THEN Some(HTTPException(400, "Invalid task type"))
    ELSE IF owner_role \notin TASK_OWNER_ROLES
    THEN Some(HTTPException(400, "Invalid owner role"))
    ELSE IF status \notin TASK_STATUSES
    THEN Some(HTTPException(400, "Invalid status"))
    ELSE IF description_missing(description)
    THEN Some(HTTPException(400, "Description is required"))
    ELSE NULL

\* (payload.status or "OPEN").strip().upper()
status_or_open(status) == upper(strip(IF status = "" THEN "OPEN" ELSE status))

Outcome(T, response) == [project_tasks |-> T, response |-> response]

\* POST /project-tasks
create_project_task(P, T, project_id, payload) ==
    LET task_type == upper(strip(payload.type))
        owner_role == upper(strip(payload.owner_role))
        status == status_or_open(payload.status)
        description == strip(payload.description)
        error == validation(task_type, owner_role, status, description)
    IN  IF error # NULL THEN Outcome(T, Val(error))
        ELSE IF ~task_project(P, project_id)
        THEN Outcome(T, HTTPException(404, "Project not found"))
        ELSE Outcome(Append(T, [project_id |-> project_id, type |-> task_type,
                                owner_role |-> owner_role, status |-> status,
                                description |-> description]),
                     Response([id |-> Len(T) + 1, status |-> "ok"]))

\* PATCH /project-tasks/{task_id}/status
update_project_task_status(P, T, task_id, payload) ==
    LET status == upper(strip(payload.status)) IN
    IF status \notin TASK_STATUSES
    THEN Outcome(T, HTTPException(400, "Invalid status"))
    ELSE IF ~(task_id \in DOMAIN T /\ task_project(P, T[task_id].project_id))
    THEN Outcome(T, HTTPException(404, "Task not found"))
    ELSE Outcome([T EXCEPT ![task_id].status = status],
                 Response([id |-> task_id, status |-> "ok"]))

\* PUT /project-tasks/{task_id}
update_project_task(P, T, task_id, payload) ==
    LET task_type == upper(strip(payload.type))
        owner_role == upper(strip(payload.owner_role))
        status == upper(strip(payload.status))
        description == strip(payload.description)
        error == validation(task_type, owner_role, status, description)
    IN  IF error # NULL THEN Outcome(T, Val(error))
        ELSE IF ~(task_id \in DOMAIN T /\ task_project(P, T[task_id].project_id))
        THEN Outcome(T, HTTPException(404, "Task not found"))
        ELSE Outcome([T EXCEPT ![task_id] =
                        [@ EXCEPT !.type = task_type, !.owner_role = owner_role,
                                  !.status = status, !.description = description]],
                     Response([id |-> task_id, status |-> "ok"]))

\* a request is answered: the table and the response are the outcome's, and
\* the status code of the answer to the request before is kept
TaskRequest(request, outcome) ==
    /\ pc = "idle"
    /\ project_tasks' = outcome.project_tasks
    /\ task_response' = outcome.response
    /\ task_request' = Some(request)
    /\ task_previous' =
          IF task_request = NULL THEN NULL
          ELSE Some(task_response.status_code)
    /\ UNCHANGED <<tables, pc, form, counters, rows_read, row, database,
                   personal, metrics, sheet>>

CreateTask(project_id, payload) ==
    /\ Len(project_tasks) < MaxTasks
    /\ TaskRequest([op |-> "create", project_id |-> project_id, task_id |-> 0,
                    payload |-> payload],
                   create_project_task(projects, project_tasks, project_id, payload))

UpdateTaskStatus(task_id, payload) ==
    TaskRequest([op |-> "status", project_id |-> "", task_id |-> task_id,
                 payload |-> payload],
                update_project_task_status(projects, project_tasks, task_id, payload))

UpdateTask(task_id, payload) ==
    TaskRequest([op |-> "update", project_id |-> "", task_id |-> task_id,
                 payload |-> payload],
                update_project_task(projects, project_tasks, task_id, payload))

\* request bodies: two that pass the checks of an update, one whose empty
\* status passes those of a create only, and one per check that fails
TaskPayloads ==
    {[type |-> " task", owner_role |-> "pm", status |-> "open", description |-> " fix "],
     [type |-> "PP", owner_role |-> "PM", status |-> "closed ", description |-> "fix"],
     [type |-> " task", owner_role |-> "pm", status |-> "", description |-> " fix "],
     [type |-> "bug", owner_role |-> "pm", status |-> "open", description |-> "fix"],
     [type |-> "PP", owner_role |-> "boss", status |-> "open", description |-> "fix"],
     [type |-> "PP", owner_role |-> "PM", status |-> "done", description |-> "fix"],
     [type |-> "PP", owner_role |-> "PM", status |-> "open", description |-> " "]}

\* full imports of the project P1, and requests about it and its tasks
NextTasks ==
    \/ /\ \/ BeginImport("ALL", <<2026, 1>>)
          \/ \E r \in RowsTx : ProcessRow(r)
          \/ Commit
       /\ UNCHANGED <<database, personal, metrics, sheet, tasks>>
    \/ \E payload \in TaskPayloads : CreateTask("P1", payload)
    \/ \E task_id \in 1..MaxTasks, status \in {"open", "closed ", "done", ""} :
          UpdateTaskStatus(task_id, [type |-> "", owner_role |-> "",
                                     status |-> status, description |-> ""])
    \/ \E task_id \in 1..MaxTasks, payload \in TaskPayloads :
          UpdateTask(task_id, payload)

SpecTasks == Init /\ [][NextTasks]_vars

(***************************************************************************)
(* Vocabulary of the properties.                                           *)
(***************************************************************************)
\* the project stored under this code is HISTORICAL
IsHistorical(P, code) == code \in DOMAIN P /\ P[code].is_historical

\* (year, week) order, lexicographic
Before(y1, w1, y2, w2) == y1 < y2 \/ (y1 = y2 /\ w1 < w2)

\* the code, project, status token and snapshot key of the current row
CurCode == RowCode(Val(row))

CurPid == RowPid(Val(row))

CurStatus == RowStatus(Val(row))

CurKey == <<CurPid, snapshot_year, snapshot_week>>

\* the step is one iteration of the row loop
RowStep == pc = "rows" /\ rows_read' = rows_read + 1

\* ... in full (ALL) mode, on a row that has a project code
FullRowStep == RowStep /\ import_type = "ALL" /\ CurCode' # ""

\* ... in subset (OTS) mode
SubsetRowStep == RowStep /\ import_type = "OTS"

\* no project changes its lifecycle state; a project created by the step is ACTIVE
LifecycleUnchanged ==
    /\ projects_historical' = projects_historical
    /\ \A c \in DOMAIN projects :
          c \in DOMAIN projects'
          /\ projects'[c].is_historical = projects[c].is_historical
    /\ \A c \in DOMAIN projects' \ DOMAIN projects : ~projects'[c].is_historical

\* f"{year}-W{week:02d}" of the form values, spelled out
ExpectedLabel ==
    CASE <<snapshot_year, snapshot_week>> = <<2025, 52>> -> "2025-W52"
      [] <<snapshot_year, snapshot_week>> = <<2026, 1>> -> "2026-W01"
      [] <<snapshot_year, snapshot_week>> = <<2026, 2>> -> "2026-W02"

(***************************************************************************)
(* C1  Lifecycle exclusivity: in every reachable state, for every project  *)
(* code, the project's is_historical flag is true if and only if a         *)
(* projects_historical row with that code exists.                          *)
(***************************************************************************)
C1_LifecycleExclusivity ==
    \A c \in DOMAIN projects \cup DOMAIN projects_historical :
        (c \in DOMAIN projects /\ projects[c].is_historical)
            <=> c \in DOMAIN projects_historical

\* one project archived, the other restored by the running batch
C1_Witness ==
    /\ restored >= 1
    /\ \E c \in DOMAIN projects :
          projects[c].is_historical /\ c \in DOMAIN projects_historical
    /\ \E c \in DOMAIN projects :
          ~projects[c].is_historical /\ c \notin DOMAIN projects_historical

(***************************************************************************)
(* C2  Delta correctness: between batches, for every project and every     *)
(* pair of chronologically adjacent stored snapshots A then B,             *)
(* B.real_hours_delta = B.real_hours - A.real_hours when both real_hours   *)
(* are non-null, and is null otherwise.                                    *)
(***************************************************************************)
Adjacent(S, a, b) ==
    /\ a[1] = b[1]
    /\ Before(a[2], a[3], b[2], b[3])
    /\ ~\E m \in DOMAIN S :
          m[1] = a[1] /\ Before(a[2], a[3], m[2], m[3]) /\ Before(m[2], m[3], b[2], b[3])

C2_DeltaCorrectness ==
    pc = "idle" =>
        \A a \in DOMAIN project_snapshot, b \in DOMAIN project_snapshot :
            Adjacent(project_snapshot, a, b) =>
                project_snapshot[b].real_hours_delta =
                    IF project_snapshot[a].real_hours # NULL
                       /\ project_snapshot[b].real_hours # NULL
                    THEN Some(Val(project_snapshot[b].real_hours)
                              - Val(project_snapshot[a].real_hours))
                    ELSE NULL

(***************************************************************************)
(* C3  Frozen historical: in full mode a row with status closed or hided   *)
(* for a project that is already HISTORICAL is a no-op: skipped increases  *)
(* by one, archived does not increase, and the project row, its snapshots  *)
(* and its historical row are unchanged.                                   *)
(***************************************************************************)
C3_FrozenHistorical ==
    [][( /\ FullRowStep
         /\ CurStatus' \in {"closed", "hided"}
         /\ IsHistorical(projects, CurPid') )
       => /\ skipped' = skipped + 1
          /\ archived' = archived
          /\ UNCHANGED tables]_vars

(***************************************************************************)
(* C4  As claimed: in full mode a row with status normal for an ACTIVE     *)
(* project is ingested as an ordinary snapshot: the snapshot for           *)
(* (project, year, week) is written, imported increases by one and the     *)
(* lifecycle state does not change.                                        *)
(***************************************************************************)
C4_ActiveNormalImported ==
    [][( /\ FullRowStep
         /\ CurStatus' = "normal"
         /\ CurPid' \in DOMAIN projects
         /\ ~IsHistorical(projects, CurPid') )
       => /\ imported' = imported + 1
          /\ CurKey' \in DOMAIN project_snapshot'
          /\ LifecycleUnchanged]_vars

(***************************************************************************)
(* C4  As amended: in full mode a row with status normal whose trimmed     *)
(* project code has no historical row (the project is ACTIVE or new) is    *)
(* not ingested: the project row is upserted, no snapshot is written or    *)
(* changed, skipped increases by one while imported, archived and restored *)
(* stay, and no lifecycle state changes.                                   *)
(***************************************************************************)
C4_ActiveNormalSkipped ==
    [][( /\ FullRowStep
         /\ CurStatus' = "normal"
         /\ CurCode' \notin DOMAIN projects_historical )
       => /\ skipped' = skipped + 1
          /\ UNCHANGED <<imported, archived, restored>>
          /\ project_snapshot' = project_snapshot
          /\ CurPid' \in DOMAIN projects'
          /\ LifecycleUnchanged]_vars

\* an ACTIVE project with a stored snapshot met a normal row in full mode
C4_Witness ==
    /\ pc = "rows" /\ import_type = "ALL" /\ row # NULL
    /\ CurCode # "" /\ CurStatus = "normal"
    /\ rows_read = 1 /\ skipped = 1
    /\ CurPid \in DOMAIN projects /\ ~projects[CurPid].is_historical
    /\ \E k \in DOMAIN project_snapshot : k[1] = CurPid
    /\ CurKey \notin DOMAIN project_snapshot

(***************************************************************************)
(* C5  Unrecognized status: in full mode a row whose status token is none  *)
(* of closed, hided, normal mutates nothing: the three tables are          *)
(* unchanged and only skipped increases by one.                            *)
(***************************************************************************)
C5_UnrecognizedNoMutation ==
    [][( /\ FullRowStep
         /\ CurStatus' \notin {"closed", "hided", "normal"} )
       => /\ UNCHANGED tables
          /\ skipped' = skipped + 1
          /\ UNCHANGED <<imported, archived, restored>>]_vars

(***************************************************************************)
(* C6  Archival: in full mode a row with status closed or hided for an     *)
(* ACTIVE (or new) project archives it: archived increases by one,         *)
(* is_historical becomes true, a historical row for the code exists with   *)
(* progress_w = 100, the week label of the form and the file name, and no  *)
(* snapshot is created or updated.                                         *)
(***************************************************************************)
C6_Archival ==
    [][( /\ FullRowStep
         /\ CurStatus' \in {"closed", "hided"}
         /\ ~IsHistorical(projects, CurPid') )
       => /\ archived' = archived + 1
          /\ UNCHANGED <<imported, skipped, restored>>
          /\ IsHistorical(projects', CurPid')
          /\ CurPid' \in DOMAIN projects_historical'
          /\ projects_historical'[CurPid'].progress_w = 100
          /\ projects_historical'[CurPid'].moved_to_historical_week = ExpectedLabel
          /\ projects_historical'[CurPid'].last_import_filename = "all.xlsx"
          /\ project_snapshot' = project_snapshot]_vars

\* a project with a snapshot of 2025-W52 was archived by the first row of a
\* full import of 2026-W01
C6_Witness ==
    /\ pc = "rows" /\ import_type = "ALL" /\ row # NULL
    /\ CurCode # "" /\ CurStatus = "hided"
    /\ rows_read = 1 /\ archived = 1
    /\ <<snapshot_year, snapshot_week>> = <<2026, 1>>
    /\ IsHistorical(projects, CurPid)
    /\ CurPid \in DOMAIN projects_historical
    /\ projects_historical[CurPid].moved_to_historical_week = "2026-W01"
    /\ <<CurPid, 2025, 52>> \in DOMAIN project_snapshot
    /\ CurKey \notin DOMAIN project_snapshot

(***************************************************************************)
(* C7  Restoration: in full mode a row with status normal for a HISTORICAL *)
(* project restores it: its historical row is deleted, is_historical       *)
(* becomes false, the snapshot for (project, year, week) is written, and   *)
(* restored and imported both increase by one.                             *)
(***************************************************************************)
C7_Restoration ==
    [][( /\ FullRowStep
         /\ CurStatus' = "normal"
         /\ IsHistorical(projects, CurPid') )
       => /\ restored' = restored + 1
          /\ imported' = imported + 1
          /\ ~IsHistorical(projects', CurPid')
          /\ CurPid' \notin DOMAIN projects_historical'
          /\ CurKey' \in DOMAIN project_snapshot']_vars

(***************************************************************************)
(* C8  As claimed: when a HISTORICAL project is restored by a full-mode    *)
(* normal row, real_hours_delta of the snapshot persisted by that row is   *)
(* the row's real_hours minus the real_hours of the last snapshot recorded *)
(* before archival, the project's stored snapshot with the greatest        *)
(* (year, week) (null when there is none or a real_hours is null),         *)
(* whatever the restoration (year, week).                                  *)
(***************************************************************************)
RestoreStep == FullRowStep /\ restored' = restored + 1

C8_DeltaAgainstArchived ==
    [][RestoreStep =>
        LET stored == {k \in DOMAIN project_snapshot : k[1] = CurPid'}
            last == CHOOSE k \in stored :
                      \A j \in stored : j = k \/ Before(j[2], j[3], k[2], k[3])
            mine == Val(row').real_hours
        IN  project_snapshot'[CurKey'].real_hours_delta =
                IF stored = {} THEN NULL
                ELSE IF mine = NULL \/ project_snapshot[last].real_hours = NULL
                     THEN NULL
                     ELSE Some(Val(mine) - Val(project_snapshot[last].real_hours))]_vars

(***************************************************************************)
(* C8  As amended: the deltas of the snapshot persisted by a restoring row *)
(* are computed against the stored snapshot of the same project with the   *)
(* greatest (year, week) strictly less than the restoration (year, week);  *)
(* when there is none, or a real_hours is null, the computed delta is null *)
(* and a delta already stored for that (year, week) stays.                 *)
(***************************************************************************)
C8_DeltaAgainstPredecessor ==
    [][RestoreStep =>
        LET key == CurKey'
            earlier == {k \in DOMAIN project_snapshot :
                          k[1] = key[1] /\ Before(k[2], k[3], key[2], key[3])}
            pred == CHOOSE k \in earlier :
                      \A j \in earlier : j = k \/ Before(j[2], j[3], k[2], k[3])
            mine == Val(row').real_hours
            computed ==
                IF earlier = {} THEN NULL
                ELSE IF mine = NULL \/ project_snapshot[pred].real_hours = NULL
                     THEN NULL
                     ELSE Some(Val(mine) - Val(project_snapshot[pred].real_hours))
            kept == IF key \in DOMAIN project_snapshot
                    THEN project_snapshot[key].real_hours_delta ELSE NULL
        IN  project_snapshot'[key].real_hours_delta =
                IF computed # NULL THEN computed ELSE kept]_vars

\* restored at 2026-W02 with 2 hours, over snapshots of 2025-W52 and 2026-W01
\* the later of which holds 1 hour
C8_Witness ==
    /\ pc = "rows" /\ import_type = "ALL" /\ row # NULL
    /\ CurStatus = "normal" /\ restored = 1 /\ rows_read = 1
    /\ <<snapshot_year, snapshot_week>> = <<2026, 2>>
    /\ <<"P1", 2025, 52>> \in DOMAIN project_snapshot
    /\ <<"P1", 2026, 1>> \in DOMAIN project_snapshot
    /\ project_snapshot[<<"P1", 2026, 1>>].real_hours = Some(1)
    /\ project_snapshot[<<"P1", 2025, 52>>].real_hours = Some(2)
    /\ Val(row).real_hours = Some(2)
    /\ project_snapshot[CurKey].real_hours_delta = Some(1)

(***************************************************************************)
(* C9  Subset mode never touches the lifecycle: in every step of a subset  *)
(* (OTS) import, from the opening of the batch through each of its rows,   *)
(* whatever the row's status token, no project's is_historical changes and *)
(* the set and contents of projects_historical are unchanged; a row with a *)
(* project code writes the snapshot of (project, year, week) and counts as *)
(* imported.                                                               *)
(***************************************************************************)
SubsetBegin == pc = "idle" /\ pc' = "rows" /\ import_type' = "OTS"

C9_SubsetKeepsLifecycle ==
    [][(SubsetBegin \/ SubsetRowStep) =>
        /\ LifecycleUnchanged
        /\ SubsetRowStep =>
              /\ UNCHANGED <<archived, restored>>
              /\ CurCode' # "" =>
                    /\ imported' = imported + 1
                    /\ skipped' = skipped
                    /\ CurKey' \in DOMAIN project_snapshot'
                    /\ project_snapshot'[CurKey'].real_hours # NULL]_vars

(***************************************************************************)
(* C10  Merge monotonicity: for every upsert of an existing project or an  *)
(* existing snapshot, each stored column other than the milestone dates    *)
(* that was non-null before is non-null afterwards, and it changes only    *)
(* when the new value is non-null, and then to the new value.              *)
(***************************************************************************)
NonNullWins(old, new, after) ==
    old # NULL => /\ after # NULL
                  /\ after # old => (new # NULL /\ after = new)

C10_MergeMonotonic ==
    [][(RowStep /\ CurCode' # "") =>
        LET r == Val(row')
            pid == CurPid'
            key == CurKey'
        IN  /\ pid \in DOMAIN projects =>
                /\ NonNullWins(projects[pid].project_name,
                               ProjectFields(r).project_name,
                               projects'[pid].project_name)
                /\ NonNullWins(projects[pid].client, r.client,
                               projects'[pid].client)
            /\ (key \in DOMAIN project_snapshot /\ imported' = imported + 1) =>
                NonNullWins(project_snapshot[key].real_hours, r.real_hours,
                            project_snapshot'[key].real_hours)]_vars

\* the second row of a batch carried no client and no hours for a project
\* and week that had both stored: both are still there
C10_Witness ==
    /\ pc = "rows" /\ import_type = "OTS" /\ row # NULL
    /\ rows_read = 2 /\ imported = 2
    /\ Val(row).client = NULL /\ Val(row).real_hours = NULL
    /\ projects[CurPid].client = Some("X")
    /\ project_snapshot[CurKey].real_hours = Some(2)

(***************************************************************************)
(* C11  Name preservation: a row whose project name is missing (null,      *)
(* blank, or the token nan/none in any case) for a project that is stored  *)
(* with a real name leaves the stored name as it is.                       *)
(***************************************************************************)
MissingName(n) ==
    n = NULL \/ Val(n) \in {"", " ", "nan", "NaN", " nan", "none", "None"}

C11_NameNeverErased ==
    [][( /\ RowStep /\ CurCode' # ""
         /\ MissingName(Val(row').project_name)
         /\ CurPid' \in DOMAIN projects
         /\ projects[CurPid'].project_name = Some("A") )
       => projects'[CurPid'].project_name = Some("A")]_vars

(***************************************************************************)
(* C12  Milestone dates: after a row is written over an already stored     *)
(* (project, year, week), the stored milestone date is the date the row    *)
(* carries, null included: a missing (or zero) date cell clears a date     *)
(* that was stored before.                                                 *)
(***************************************************************************)
WriteStep == RowStep /\ CurCode' # "" /\ imported' = imported + 1

C12_DatesOverwritten ==
    [][(WriteStep /\ CurKey' \in DOMAIN project_snapshot) =>
        project_snapshot'[CurKey'].date_end =
            IF Val(row').date_end \in {NULL, Some(0)}
            THEN NULL ELSE Val(row').date_end]_vars

\* the second row of a batch carried neither hours nor a date for a stored
\* (project, year, week): the hours of the first row are kept, the date is null
C12_Witness ==
    /\ pc = "rows" /\ row # NULL
    /\ rows_read = 2 /\ imported = 2
    /\ Val(row).date_end = NULL /\ Val(row).real_hours = NULL
    /\ project_snapshot[CurKey].real_hours = Some(1)
    /\ project_snapshot[CurKey].date_end = NULL

(***************************************************************************)
(* C15  Chronological predecessor: every row that writes a snapshot has    *)
(* its delta computed against the stored snapshot of the same project with *)
(* the greatest (year, week) strictly less than the target, whatever the   *)
(* order the weeks were imported in.  A snapshot stored at the target      *)
(* (year, week), such as the one written by an earlier row of the batch,   *)
(* is never the predecessor: without an earlier week no delta is computed  *)
(* and the stored delta stays.                                             *)
(***************************************************************************)
Earlier(S, key) ==
    {k \in DOMAIN S : k[1] = key[1] /\ Before(k[2], k[3], key[2], key[3])}

Predecessor(S, key) ==
    CHOOSE k \in Earlier(S, key) :
        \A j \in Earlier(S, key) : j = k \/ Before(j[2], j[3], k[2], k[3])

C15_ChronologicalPredecessor ==
    [][WriteStep =>
        LET key == CurKey'
            mine == Val(row').real_hours
            kept == IF key \in DOMAIN project_snapshot
                    THEN project_snapshot[key].real_hours_delta ELSE NULL
            after == project_snapshot'[key].real_hours_delta
        IN  IF Earlier(project_snapshot, key) = {}
            THEN after = kept
            ELSE LET theirs == project_snapshot[Predecessor(project_snapshot, key)].real_hours
                 IN  IF mine # NULL /\ theirs # NULL
                     THEN after = Some(Val(mine) - Val(theirs))
                     ELSE after = kept]_vars

\* 2026-W02 was imported before 2026-W01; the second row of the batch for
\* 2026-W01 has its delta against 2025-W52, not against the first row
C15_Witness ==
    /\ pc = "rows" /\ row # NULL
    /\ rows_read = 2 /\ imported = 2
    /\ <<snapshot_year, snapshot_week>> = <<2026, 1>>
    /\ <<"P1", 2026, 2>> \in DOMAIN project_snapshot
    /\ <<"P1", 2025, 52>> \in DOMAIN project_snapshot
    /\ project_snapshot[<<"P1", 2025, 52>>].real_hours = Some(2)
    /\ Val(row).real_hours = Some(1)
    /\ project_snapshot[CurKey].real_hours_delta = Some(-1)

(***************************************************************************)
(* C18  One snapshot per (project, year, week): a row that writes a        *)
(* snapshot adds the row of (project, year, week) when it is not stored    *)
(* and updates that one row when it is; no other snapshot is added,        *)
(* removed or changed, and two stored snapshots of a project always differ *)
(* in (year, week).                                                        *)
(***************************************************************************)
C18_OneSnapshotPerWeek ==
    [][WriteStep =>
        LET key == CurKey'
            mine == Val(row').real_hours
        IN  /\ DOMAIN project_snapshot' = DOMAIN project_snapshot \cup {key}
            /\ \A k \in DOMAIN project_snapshot \ {key} :
                  project_snapshot'[k] = project_snapshot[k]
            /\ key \in DOMAIN project_snapshot =>
                  /\ Cardinality(DOMAIN project_snapshot')
                        = Cardinality(DOMAIN project_snapshot)
                  /\ mine # NULL => project_snapshot'[key].real_hours = mine
            /\ \A a, b \in DOMAIN project_snapshot' :
                  (a[1] = b[1] /\ a # b) =>
                      \/ Before(a[2], a[3], b[2], b[3])
                      \/ Before(b[2], b[3], a[2], a[3])]_vars

\* a stored week was imported again with other hours while two more weeks
\* are stored: still three snapshots
C18_Witness ==
    /\ pc = "rows" /\ row # NULL
    /\ rows_read = 2 /\ imported = 2
    /\ Val(row).real_hours = Some(2)
    /\ project_snapshot[CurKey].real_hours = Some(2)
    /\ Cardinality(DOMAIN project_snapshot) = 3

(***************************************************************************)
(* C19  As claimed: when a row follows a row of the same batch with the    *)
(* same project code, the stored snapshot of (project, year, week) holds,  *)
(* for a non-date column, the value of the last of the rows in which it is *)
(* non-null and, for a milestone date, the value of the last row; in       *)
(* either import mode.                                                     *)
(***************************************************************************)
DuplicateStep ==
    /\ RowStep /\ row # NULL
    /\ CurCode # "" /\ CurCode' # "" /\ CurPid' = CurPid

LastRowWins ==
    LET first == Val(row)
        last == Val(row')
        key == CurKey'
    IN  /\ project_snapshot'[key].real_hours =
              IF last.real_hours # NULL THEN last.real_hours
              ELSE IF first.real_hours # NULL THEN first.real_hours
              ELSE project_snapshot[key].real_hours
        /\ project_snapshot'[key].date_end =
              IF last.date_end \in {NULL, Some(0)} THEN NULL ELSE last.date_end

C20_NoCodeRowSkipped ==
    [][(RowStep /\ Val(row').project_code \in {NULL, Some(""), Some(" ")}) =>
        /\ UNCHANGED tables
        /\ skipped' = skipped + 1
        /\ UNCHANGED <<imported, archived, restored>>
        /\ pc' = "rows"]_vars

\* in a subset batch the row after a row without a project code was imported
C20_Witness ==
    /\ pc = "rows" /\ import_type = "OTS" /\ row # NULL
    /\ rows_read = 2 /\ skipped = 1 /\ imported = 1
    /\ Val(row).project_code = Some("P1")
    /\ DOMAIN projects = {"P1"}
    /\ ~\E k \in DOMAIN project_snapshot : k[1] # "P1"

(***************************************************************************)
(* C13  Atomic batch: while a request runs, from its first statement       *)
(* through every row, the tables and the import_file table read by other   *)
(* connections do not change; when it ends, either all its writes, the     *)
(* import_file row included, become visible together (commit) or none of   *)
(* them is present, in the committed store or for the next request         *)
(* (failure).                                                              *)
(***************************************************************************)
C13_BatchAtomic ==
    [][ /\ pc' = "rows" => committed' = committed
        /\ (pc = "rows" /\ pc' = "idle") =>
              \/ committed' = View /\ View' = View
              \/ committed' = committed /\ View' = committed ]_vars

\* a request failed after two rows, the first of which archived the project
\* or wrote its snapshot: nothing is stored
C13_Witness ==
    /\ pc = "idle"
    /\ Len(batch) = 2
    /\ batch[1].internal_status = Some("Closed")
    /\ batch[2].internal_status = Some("Normal ")
    /\ committed.projects = <<>> /\ committed.import_file = 0
    /\ projects = <<>> /\ project_snapshot = <<>> /\ projects_historical = <<>>
    /\ import_file = 0

(***************************************************************************)
(* C14  Idempotence: when a batch with the form (year, week, mode) and the *)
(* rows of the batch committed just before it commits, every project row   *)
(* and every snapshot row is what it was after the first of the two.       *)
(***************************************************************************)
CommitStep == pc = "rows" /\ pc' = "idle" /\ committed' = View

C14_Idempotent ==
    [][( /\ CommitStep /\ previous # NULL
         /\ Val(previous).import_type = import_type
         /\ Val(previous).yw = <<snapshot_year, snapshot_week>>
         /\ Val(previous).rows = batch )
       => /\ projects = committed.projects
          /\ project_snapshot = committed.project_snapshot]_vars

(***************************************************************************)
(* C16  Concurrent writers of one project: when a subset batch commits     *)
(* that arrived while another subset batch was running, and both wrote     *)
(* snapshots of a same project, every snapshot written by either has, in   *)
(* the committed tables, real_hours_delta relative to its chronological    *)
(* predecessor: the difference of the two real_hours, null when there is   *)
(* no predecessor or a real_hours is null.                                 *)
(***************************************************************************)
CodedRows(rows) == {rows[i] : i \in {j \in DOMAIN rows : RowCode(rows[j]) # ""}}

WrittenKeys(rows, yw) == {<<RowPid(r), yw[1], yw[2]>> : r \in CodedRows(rows)}

DeltaCorrect(S, key) ==
    S[key].real_hours_delta =
        IF Earlier(S, key) = {} THEN NULL
        ELSE LET theirs == S[Predecessor(S, key)].real_hours
             IN  IF S[key].real_hours # NULL /\ theirs # NULL
                 THEN Some(Val(S[key].real_hours) - Val(theirs))
                 ELSE NULL

C16_NoStaleDelta ==
    [][( /\ CommitStep /\ previous # NULL /\ Val(previous).overlapped
         /\ import_type = "OTS" /\ Val(previous).import_type = "OTS" )
       => LET mine == WrittenKeys(batch, <<snapshot_year, snapshot_week>>)
              theirs == WrittenKeys(Val(previous).rows, Val(previous).yw)
          IN  (\E a \in mine, b \in theirs : a[1] = b[1]) =>
                  \A key \in mine \cup theirs :
                      DeltaCorrect(project_snapshot, key)]_vars

(***************************************************************************)
(* C17  Disjoint batches are independent: when a batch commits that        *)
(* arrived while another batch was running, and the two carry disjoint     *)
(* non-empty sets of project codes, the three tables are those reached by  *)
(* running the two batches one after the other from the tables the first   *)
(* started from, in the one order and in the other.                        *)
(***************************************************************************)
CodesOf(rows) == {RowCode(r) : r \in CodedRows(rows)}

C17_DisjointIndependent ==
    [][( /\ CommitStep /\ previous # NULL /\ Val(previous).overlapped
         /\ CodesOf(batch) # {} /\ CodesOf(Val(previous).rows) # {}
         /\ CodesOf(batch) \cap CodesOf(Val(previous).rows) = {} )
       => LET first == Val(previous)
              yw == <<snapshot_year, snapshot_week>>
              final == Tables(projects, project_snapshot, projects_historical)
              one == import_batch(
                         import_batch(first.base, first.import_type, first.yw,
                                      first.rows),
                         import_type, yw, batch)
              other == import_batch(
                           import_batch(first.base, import_type, yw, batch),
                           first.import_type, first.yw, first.rows)
          IN  final = one /\ final = other]_vars

(***************************************************************************)
(* C21  Frozen metrics: a row that archives a project leaves a historical  *)
(* record whose real_hours is that of the project's snapshot with the      *)
(* greatest (year, week), null when it has none, and whose progress_w is   *)
(* 100; and no step other than an archival of the same code (opening of a  *)
(* batch in either mode, a row, GET /historicals or startup) changes       *)
(* real_hours or progress_w of a record that stays in projects_historical. *)
(***************************************************************************)
ArchiveStep == RowStep /\ archived' = archived + 1

C21_FrozenMetrics ==
    [][ /\ ArchiveStep =>
              LET keys == AllKeys(project_snapshot, CurPid')
                  rec == projects_historical'[CurPid']
              IN  /\ rec.progress_w = 100
                  /\ rec.real_hours =
                        IF keys = {} THEN NULL
                        ELSE project_snapshot[LatestKey(keys)].real_hours
        /\ \A c \in DOMAIN projects_historical \cap DOMAIN projects_historical' :
              ~(ArchiveStep /\ CurPid' = c) =>
                  /\ projects_historical'[c].real_hours =
                        projects_historical[c].real_hours
                  /\ projects_historical'[c].progress_w =
                        projects_historical[c].progress_w ]_vars

(***************************************************************************)
(* C22  Historical projects are excluded from the active views: after      *)
(* every step, for a project that is HISTORICAL (flag set or historical    *)
(* record present under its code) the state, details, weekly-metrics,      *)
(* phase-history and task-counter endpoints answer "Project not found" and *)
(* no search returns it; and after a row restores a project the five       *)
(* endpoints find it again, a search for its code returns it, and the      *)
(* weekly metrics and phase history list every snapshot stored before the  *)
(* restoration, with the values it had unless it is the snapshot of the    *)
(* row's own (year, week).                                                 *)
(***************************************************************************)
ProjectNotFound(response) ==
    response.status_code = 404 /\ response.detail = "Project not found"

HiddenFromViews(P, S, c) ==
    /\ ProjectNotFound(project_state(P, S, c))
    /\ ProjectNotFound(project_details(P, S, c))
    /\ ProjectNotFound(project_weekly_metrics(P, S, c))
    /\ ProjectNotFound(project_phase_history(P, S, c))
    /\ ProjectNotFound(project_task_counters(P, c))
    /\ \A q \in Queries : c \notin search_projects(P, q)

ShownInViews(P, S, c) ==
    /\ ~ProjectNotFound(project_state(P, S, c))
    /\ ~ProjectNotFound(project_details(P, S, c))
    /\ project_weekly_metrics(P, S, c).status_code = 200
    /\ project_phase_history(P, S, c).status_code = 200
    /\ project_task_counters(P, c).status_code = 200
    /\ c \in search_projects(P, "p1")

C22_HistoricalExcluded ==
    [][ /\ \A c \in DOMAIN projects' :
              (projects'[c].is_historical \/ c \in DOMAIN projects_historical')
                  => HiddenFromViews(projects', project_snapshot', c)
        /\ RestoreStep =>
              /\ ShownInViews(projects', project_snapshot', CurCode')
              /\ \A k \in AllKeys(project_snapshot, CurCode') :
                    /\ \E m \in project_weekly_metrics(projects', project_snapshot',
                                                       CurCode').body :
                          /\ m.year = k[2] /\ m.week = k[3]
                          /\ k # CurKey' =>
                                m.real_hours = project_snapshot[k].real_hours
                    /\ \E m \in project_phase_history(projects', project_snapshot',
                                                      CurCode').body :
                          /\ m.year = k[2] /\ m.week = k[3]
                          /\ k # CurKey' =>
                                m.date_end = project_snapshot[k].date_end ]_vars

\* a restored project that had a snapshot of an earlier week when archived
C22_Witness ==
    /\ row # NULL /\ restored = 1 /\ import_type = "ALL"
    /\ active_project(projects, CurCode)
    /\ \E k \in AllKeys(project_snapshot, CurCode) :
          Before(k[2], k[3], snapshot_year, snapshot_week)
    /\ project_state(projects, project_snapshot, CurCode).status_code = 200

(***************************************************************************)
(* The personal area: the request has been answered, and the last two      *)
(* snapshots of the weekly history.                                        *)
(***************************************************************************)
Answered == overall_status # ""

Latest == weekly[Len(weekly)]

Prev == weekly[Len(weekly) - 1]

Moved(i, key) ==
    /\ phases_history[i - 1][key] # NULL
    /\ phases_history[i][key] # NULL
    /\ phases_history[i - 1][key] # phases_history[i][key]

C28_ProductivityGradient ==
    ( /\ Answered /\ Len(weekly) >= 2
      /\ NULL \notin {Latest.real_hours, Prev.real_hours,
                      Latest.horas_teoricas, Prev.horas_teoricas} )
    => LET theoretical == Val(Latest.horas_teoricas) - Val(Prev.horas_teoricas)
           real == Val(Latest.real_hours) - Val(Prev.real_hours)
       IN  productivity_status = IF theoretical < real THEN "red" ELSE "green"

(***************************************************************************)
(* C29  Deviation by sign: for a history of one snapshot or more whose     *)
(* latest desviacion_pct is known, the deviation indicator is red when     *)
(* that value is greater than 0 and green when it is 0 or negative.        *)
(***************************************************************************)
C29_DeviationSign ==
    (Answered /\ Len(weekly) >= 1 /\ Latest.desviacion_pct # NULL)
    => deviation_status =
          IF Val(Latest.desviacion_pct) > 0 THEN "red" ELSE "green"

(***************************************************************************)
(* C30  Phase by the latest week: for a history of two snapshots or more,  *)
(* the phase indicator is red when a milestone date of the latest snapshot *)
(* differs from that of the previous one and green when all of them are    *)
(* equal.                                                                  *)
(***************************************************************************)
C30_PhaseLatestWeek ==
    (Answered /\ Len(phases_history) >= 2)
    => phase_status =
          IF phases_history[Len(phases_history)] #
                phases_history[Len(phases_history) - 1]
          THEN "red" ELSE "green"

(***************************************************************************)
(* C31  Aggregate by the number of red indicators: the status the          *)
(* application computes from the three indicators is green when none is    *)
(* red and all are green, orange when exactly one is red, and red when two *)
(* or three are red.                                                       *)
(***************************************************************************)
Reds ==
    Cardinality({i \in 1..3 :
        <<productivity_status, deviation_status, phase_status>>[i] = "red"})

C31_AggregateByRedCount ==
    Answered =>
        /\ {productivity_status, deviation_status, phase_status} = {"green"}
              => overall_status = "green"
        /\ Reds = 1 => overall_status = "orange"
        /\ Reds >= 2 => overall_status = "red"

(***************************************************************************)
(* The metric columns: a row has been imported; its cells, the fields      *)
(* computed from it and the key it was stored under.                       *)
(***************************************************************************)
MetricsImported == cells # NULL

Cell == Val(cells)

Field == Val(snap_fields)

MetricKey == <<"P1", Val(metric_week)[1], Val(metric_week)[2]>>

\* a cell as a number, an absent one as 0
CellOrZero(c) == IF c = NULL THEN 0 ELSE Val(c)

(***************************************************************************)
(* C32  ordered_total: for every row, ordered_total is ordered_n +         *)
(* ordered_e with an absent operand counted as 0, and it is null exactly   *)
(* when both are absent (a present 0 still gives a total).                 *)
(***************************************************************************)
C32_OrderedTotal ==
    MetricsImported =>
        /\ Field.ordered_total = NULL
              <=> (Cell.ordered_n = NULL /\ Cell.ordered_e = NULL)
        /\ Field.ordered_total # NULL =>
              Val(Field.ordered_total) =
                  Float(CellOrZero(Cell.ordered_n) + CellOrZero(Cell.ordered_e))

\* ordered_n is 0 and ordered_e is absent: the total is 0, not null
C32_Witness ==
    /\ MetricsImported
    /\ Cell.ordered_n = Some(0) /\ Cell.ordered_e = NULL
    /\ Field.ordered_total = Some(Float(0))

(***************************************************************************)
(* C33  Derived metrics: for every row no metric is the result of a failed *)
(* division; horas_teoricas is ordered_total * progress_w / 100 and null   *)
(* unless both are present; desviacion_h is real_hours - horas_teoricas    *)
(* and null unless both are present; desviacion_pct is desviacion_h /      *)
(* horas_teoricas * 100 and null when an operand is null or                *)
(* horas_teoricas is zero.  Real hours 40, ordered 60 + 40, progress 50    *)
(* give 100, 50, -10 and -20.                                              *)
(***************************************************************************)
C33_DerivedMetrics ==
    MetricsImported =>
        LET total == Field.ordered_total
            theoretical == Field.horas_teoricas
            hours == Field.desviacion_h
            pct == Field.desviacion_pct
        IN  /\ \A c \in MetricColumns : Field[c] # Some(ZeroDivisionError)
            /\ theoretical =
                  IF total = NULL \/ Cell.progress_w = NULL THEN NULL
                  ELSE Some(Frac(Val(total)[1] * Val(Cell.progress_w),
                                 Val(total)[2] * 100))
            /\ hours =
                  IF Cell.real_hours = NULL \/ theoretical = NULL THEN NULL
                  ELSE Some(FSub(Float(Val(Cell.real_hours)), Val(theoretical)))
            /\ pct =
                  IF hours = NULL \/ theoretical = NULL THEN NULL
                  ELSE IF Val(theoretical)[1] = 0 THEN NULL
                  ELSE Some(Frac(Val(hours)[1] * Val(theoretical)[2] * 100,
                                 Val(hours)[2] * Val(theoretical)[1]))
            /\ ( /\ Cell.real_hours = Some(40) /\ Cell.ordered_n = Some(60)
                 /\ Cell.ordered_e = Some(40) /\ Cell.progress_w = Some(50) )
               => /\ total = Some(Float(100))
                  /\ theoretical = Some(Float(50))
                  /\ hours = Some(Float(-10))
                  /\ pct = Some(Float(-20))

\* hours against an order of 0 hours: theoretical hours 0, no percentage
C33_Witness ==
    /\ MetricsImported
    /\ Cell.real_hours = Some(40) /\ Cell.progress_w = Some(50)
    /\ Field.horas_teoricas = Some(Float(0))
    /\ Field.desviacion_h = Some(Float(40))
    /\ Field.desviacion_pct = NULL

(***************************************************************************)
(* C34  Productivity ratio: the productividad_proyecto compute_deltas      *)
(* hands to the upsert is real_hours_delta / horas_teoricas_delta, and is  *)
(* null whenever real_hours_delta is null, horas_teoricas_delta is null or *)
(* horas_teoricas_delta is zero; it is never the result of a division by   *)
(* zero.                                                                   *)
(***************************************************************************)
C34_ProductivityRatio ==
    MetricsImported =>
        LET rhd == Field.real_hours_delta
            htd == Field.horas_teoricas_delta
        IN  /\ Field.productividad_proyecto # Some(ZeroDivisionError)
            /\ Field.productividad_proyecto =
                  IF rhd = NULL \/ htd = NULL THEN NULL
                  ELSE IF Val(htd)[1] = 0 THEN NULL
                  ELSE Some(Frac(Val(rhd)[1] * Val(htd)[2],
                                 Val(rhd)[2] * Val(htd)[1]))

\* ten hours more spent for thirty theoretical hours less: ratio -1/3
C34_Witness ==
    /\ MetricsImported
    /\ Field.real_hours_delta = Some(Float(10))
    /\ Field.horas_teoricas_delta = Some(Float(-30))
    /\ Field.productividad_proyecto = Some(<<-1, 3>>)

(***************************************************************************)
(* C35  First snapshot: when a row is imported for a (year, week) and the  *)
(* project has no stored snapshot of a smaller (year, week), the five      *)
(* deltas and the productivity ratio of the stored snapshot are null after *)
(* the import, also when the week was imported before.                     *)
(***************************************************************************)
DeltaColumns ==
    {"progress_w_delta", "real_hours_delta", "ordered_total_delta",
     "horas_teoricas_delta", "desviacion_pct_delta", "productividad_proyecto"}

C35_FirstSnapshotNoDeltas ==
    [][( /\ metric_imports' = metric_imports + 1
         /\ PrevKeys(metric_snapshot, "P1", Val(metric_week')[1],
                     Val(metric_week')[2]) = {} )
       => \A c \in DeltaColumns : metric_snapshot'[MetricKey'][c] = NULL]_vars

\* the first week imported twice, with the hours known both times
C35_Witness ==
    /\ metric_imports = 2
    /\ DOMAIN metric_snapshot = {MetricKey}
    /\ Field.real_hours = Some(Float(50))
    /\ metric_snapshot[MetricKey].ordered_total = Some(Float(100))
    /\ metric_snapshot[MetricKey].real_hours_delta = NULL

(***************************************************************************)
(* C36  Counters: while a batch is ingested, and so when its counters are  *)
(* returned, imported + archived + skipped is the number of rows read,     *)
(* restored is at most imported, and in subset mode (OTS) archived and     *)
(* restored are 0.                                                         *)
(***************************************************************************)
C36_CountersAccount ==
    pc = "rows" =>
        /\ imported + archived + skipped = rows_read
        /\ restored <= imported
        /\ import_type = "OTS" => archived = 0 /\ restored = 0

\* a full import of two rows: one archived, one restored
C36_Witness ==
    /\ pc = "rows"
    /\ import_type # "OTS"
    /\ rows_read = 2
    /\ archived = 1 /\ restored = 1 /\ imported = 1 /\ skipped = 0

(***************************************************************************)
(* C37  Header normalisation is idempotent and total: applied to columns   *)
(* that are already normalised it returns the same names, and a header no  *)
(* table recognises comes out as its snake form, a name of word            *)
(* characters only.                                                        *)
(***************************************************************************)
\* the names of df.columns
Names(cols) == [i \in DOMAIN cols |-> Str(cols[i])]

\* \w: letters, digits and the underscore
IsWord(t) == t \notin {" ", "-", "%", "!"}

TableSources ==
    Sources(RENAME_MAP) \cup Sources(ALIASES) \cup Sources(auto_rename)
        \cup Sources(forced_rename)

Unrecognised(h) == Str(_snake(h)) \notin TableSources

C37_HeadersIdempotentTotal ==
    [][header_pass' = header_pass + 1 =>
         /\ header_pass >= 1 => Names(columns') = Names(columns)
         /\ header_pass = 0 =>
               \A i \in DOMAIN sheet_columns :
                   Unrecognised(sheet_columns[i]) =>
                       /\ Str(columns'[i]) = Str(_snake(sheet_columns[i]))
                       /\ \A j \in DOMAIN columns'[i] : IsWord(columns'[i][j])]_vars

\* "Code-H" next to "Code", normalised twice: code_h passes through, code is
\* renamed, and the second application changes neither
C37_Witness ==
    /\ header_pass = 2
    /\ sheet_columns = << <<"Code", "-", "H">>, <<"Code">> >>
    /\ Names(columns) = <<"code_h", "project_code">>

(***************************************************************************)
(* The task requests: a step that answers one, the request it answered,    *)
(* whether the request passes the checks of its endpoint, and the project  *)
(* it is about.                                                            *)
(***************************************************************************)
TaskStep == tasks' # tasks

Request == Val(task_request)

Passes(request) ==
    LET payload == request.payload IN
    CASE request.op = "create" ->
            validation(upper(strip(payload.type)), upper(strip(payload.owner_role)),
                       status_or_open(payload.status), strip(payload.description)) = NULL
      [] request.op = "status" -> upper(strip(payload.status)) \in TASK_STATUSES
      [] request.op = "update" ->
            validation(upper(strip(payload.type)), upper(strip(payload.owner_role)),
                       upper(strip(payload.status)), strip(payload.description)) = NULL

\* the request is about an existing project, or an existing task of one,
\* and that project is HISTORICAL (historical = TRUE) or not (FALSE)
About(request, P, T, historical) ==
    IF request.op = "create"
    THEN /\ request.project_id \in DOMAIN P
         /\ P[request.project_id].is_historical = historical
    ELSE /\ request.task_id \in DOMAIN T
         /\ P[T[request.task_id].project_id].is_historical = historical

\* the fields a request that passes the checks stores
Stored(request) ==
    LET payload == request.payload IN
    [type |-> upper(strip(payload.type)),
     owner_role |-> upper(strip(payload.owner_role)),
     status |-> IF request.op = "create" THEN status_or_open(payload.status)
                ELSE upper(strip(payload.status)),
     description |-> strip(payload.description)]

\* the table after the request is the table before it with the request applied
Applied(request, T, after) ==
    CASE request.op = "create" ->
            /\ Len(after) = Len(T) + 1
            /\ SubSeq(after, 1, Len(T)) = T
            /\ after[Len(after)] =
                  [project_id |-> request.project_id,
                   type |-> Stored(request).type,
                   owner_role |-> Stored(request).owner_role,
                   status |-> Stored(request).status,
                   description |-> Stored(request).description]
      [] request.op = "status" ->
            after = [T EXCEPT ![request.task_id].status = Stored(request).status]
      [] request.op = "update" ->
            after = [T EXCEPT ![request.task_id] =
                        [project_id |-> T[request.task_id].project_id,
                         type |-> Stored(request).type,
                         owner_role |-> Stored(request).owner_role,
                         status |-> Stored(request).status,
                         description |-> Stored(request).description]]

(***************************************************************************)
(* C38  Frozen tasks: a create, status-update or update request that       *)
(* passes the checks of its endpoint and is about a HISTORICAL project (a  *)
(* task of one) is answered 404 and leaves project_tasks as it was; the    *)
(* same request about a project that is not HISTORICAL, a restored one     *)
(* included, is answered 200 and applied.                                  *)
(***************************************************************************)
C38_HistoricalTasksFrozen ==
    [][TaskStep =>
         /\ ( Passes(Request') /\ About(Request', projects, project_tasks, TRUE) )
               => /\ task_response'.status_code = 404
                  /\ project_tasks' = project_tasks
         /\ ( Passes(Request') /\ About(Request', projects, project_tasks, FALSE) )
               => /\ task_response'.status_code = 200
                  /\ Applied(Request', project_tasks, project_tasks')]_vars

\* the status update of task 1 was answered 404 while its project was
\* HISTORICAL; sent again after the restore it is answered 200 and applied
C38_Witness ==
    /\ task_previous = Some(404)
    /\ task_request # NULL
    /\ Request.op = "status" /\ Request.task_id = 1
    /\ Request.payload.status = "closed "
    /\ task_response.status_code = 200
    /\ project_tasks[1].status = "CLOSED"
    /\ ~projects["P1"].is_historical

(***************************************************************************)
(* C39  Task fields, as stated: after every task request each stored task  *)
(* has a type, owner role and status of the three sets and a description   *)
(* that is not empty, and a request carrying a type, owner role or status  *)
(* that, trimmed and upper-cased, is outside its set, or a blank           *)
(* description, is answered with an error and leaves project_tasks as it   *)
(* was.                                                                    *)
(***************************************************************************)
ValidTask(t) ==
    /\ t.type \in TASK_TYPES
    /\ t.owner_role \in TASK_OWNER_ROLES
    /\ t.status \in TASK_STATUSES
    /\ t.description # ""

Carried(request) ==
    LET payload == request.payload IN
    [type |-> upper(strip(payload.type)),
     owner_role |-> upper(strip(payload.owner_role)),
     status |-> upper(strip(payload.status)),
     description |-> strip(payload.description)]

OutsideSets(request) ==
    IF request.op = "status" THEN Carried(request).status \notin TASK_STATUSES
    ELSE ~ValidTask(Carried(request))

\* answered with an error, whichever
Refused ==
    /\ task_response'.status_code # 200
    /\ project_tasks' = project_tasks

\* answered 400 by the checks that open the endpoint
Rejected ==
    /\ task_response'.status_code = 400
    /\ project_tasks' = project_tasks

C39_TaskFieldsAsStated ==
    [][TaskStep =>
         /\ \A i \in DOMAIN project_tasks' : ValidTask(project_tasks'[i])
         /\ OutsideSets(Request') => Refused]_vars

(***************************************************************************)
(* C39  Task fields, amended: the same, the error being a 400, except that *)
(* a create request with an empty status is taken as carrying the default  *)
(* OPEN.                                                                   *)
(***************************************************************************)
EmptyStatusOnCreate(request) ==
    request.op = "create" /\ request.payload.status = ""

OutsideSetsOrDefault(request) ==
    IF EmptyStatusOnCreate(request)
    THEN ~ValidTask([Carried(request) EXCEPT !.status = "OPEN"])
    ELSE OutsideSets(request)

C39_TaskFields ==
    [][TaskStep =>
         /\ \A i \in DOMAIN project_tasks' : ValidTask(project_tasks'[i])
         /\ OutsideSetsOrDefault(Request') => Rejected]_vars

\* a task created with an empty status is stored OPEN; an update of it with
\* the status DONE has been answered 400 and has left it as it was
C39_Witness ==
    /\ task_previous = Some(200)
    /\ task_request # NULL
    /\ Request.op = "update" /\ Request.task_id = 1
    /\ Request.payload.status = "done"
    /\ task_response.status_code = 400
    /\ Len(project_tasks) = 1
    /\ project_tasks[1].status = "OPEN"
    /\ ValidTask(project_tasks[1])

====
